---- MODULE Spec2Model ----
(***************************************************************************)
(* Model of the client-side card pipeline of the dubai-events-v6 client:   *)
(*   - lib/stacked-card-adapter (transformSupabaseDataToStackedCards),      *)
(*   - app/page.tsx (Home: venueDateMap, cards),                           *)
(*   - components/mobile/MobileEventList (displayCards, the panel's       *)
(*     modes, handlers and effects) and MobileEventCard (parseToArray,     *)
(*     dates),                                                             *)
(*   - DatePillsRow (dateOptions, the date range presets) and TopNav,      *)
(*   - VenueFloatingPanel (convertHierarchicalToFlat),                     *)
(*   - StackedEventCards (CategoryPills: the category pill handlers).      *)
(*                                                                         *)
(* Strings on which the code does character work (names, times, dates      *)
(* that are joined into keys) are sequences of one-character strings.      *)
(* undefined / null / "" are all the empty sequence: the code only ever    *)
(* tests these fields for truthiness.  Where a function is called with a  *)
(* value of any type the value is a record [type, str, items].             *)
(* Instants are whole hours since 2025-05-31T00:00Z.                       *)
(***************************************************************************)
EXTENDS Integers, Sequences, FiniteSets, TLC

VARIABLES
    venues,        \* adapter input: SupabaseVenueEvent[]
    pc,            \* where the run stands (adapter: "input", "transformed",
                   \* "rerun"; Home: "loading", "ready", "rerendered")
    stacked,       \* transformSupabaseDataToStackedCards(venues)
    restacked,     \* the deduplication step applied to `stacked`
    allVenues,     \* Home: useClientSideVenues(filters).allVenues
    filteredVenues,\* Home: useClientSideVenues(filters).filteredVenues
    activeDates,   \* Home: filters.activeDates
    clock,         \* [now, tz]: the instant and the zone offset (hours)
    venueDateMap,  \* Home: useMemo venueDateMap (venue key -> DateOption[])
    indexAt,       \* the clock venueDateMap and dateOptions were built under
    cards,         \* Home: useMemo cards
    cardsAt,       \* the clock `cards` was computed under
    displayCards,  \* MobileEventList: useMemo displayCards
    cardsAgain,    \* a repeated call of the cards pipeline, same inputs
    againAt,       \* the clock of that repeated call
    optionDates,   \* DatePillsRow: filterOptions.dates
    dateOptions,   \* DatePillsRow: useMemo dateOptions
    eventCountsByDate, \* DatePillsRow: useMemo eventCountsByDate
    filters,       \* CategoryPills: the HierarchicalFilterState in use
    flatFilters,   \* VenueFloatingPanel: convertHierarchicalToFlat(filters)
    textArg,       \* the argument a text function of a card is called with
    textResult,    \* what that call returned
    selectedVenue, \* Home: useState selectedVenue, <<>> for null
    mapClickCount, \* Home: useState mapClickCount, the panel's dismissSignal
    mode,                     \* MobileEventList: 'list' or 'marker'
    markerVenueId,            \* MobileEventList: <<>> for null
    markerFullScreen,         \* MobileEventList
    listFullScreenVenueId,    \* MobileEventList: <<>> for null
    isDismissed,              \* MobileEventList
    prevSelectedVenueIdRef,   \* MobileEventList: useRef, 0 for null
    expandedCardOverride,     \* MobileEventList: <<>> for null, else <<card>>
    expandedLocalDates,       \* MobileEventList
    miniCardOverrides,        \* MobileEventList: a Map venue id -> override
    isVisible,                \* MobileEventList: the panel is slid into view
    showTimer,                \* MobileEventList: the 50 ms setTimeout is pending
    activeCardIndex,          \* MobileEventList
    highlightedVenueId,       \* Home: what onActiveCardChange last reported,
                              \* <<>> for null
    clickedMarker, \* the marker the latest interaction clicked: <<>>, <<venue>>
    selectedPreset,    \* TopNav: useState<DateRangePreset>; "none" in the
                       \* TopNav and the DatePillsRow that have no presets
    presetRangeDates,  \* TopNav: useMemo presetRangeDates
    clickedDate        \* the pill the latest interaction clicked: <<>>, <<key>>

adapterVars == <<venues, stacked, restacked>>
homeVars == <<allVenues, filteredVenues, activeDates, venueDateMap, indexAt,
              cards, cardsAt, displayCards, cardsAgain, againAt, optionDates,
              dateOptions, eventCountsByDate>>
categoryVars == <<filters, flatFilters>>
textVars == <<textArg, textResult>>
navVars == <<selectedPreset, presetRangeDates, clickedDate>>
panelVars == <<selectedVenue, mapClickCount, mode, markerVenueId,
               markerFullScreen, listFullScreenVenueId, isDismissed,
               prevSelectedVenueIdRef, expandedCardOverride,
               expandedLocalDates, miniCardOverrides, clickedMarker,
               isVisible, showTimer, activeCardIndex, highlightedVenueId>>
vars == <<venues, pc, stacked, restacked, allVenues, filteredVenues,
          activeDates, clock, venueDateMap, indexAt, cards, cardsAt,
          displayCards,
          cardsAgain, againAt, optionDates, dateOptions, eventCountsByDate,
          filters, flatFilters, textArg, textResult, selectedVenue,
          mapClickCount, mode, markerVenueId, markerFullScreen,
          listFullScreenVenueId, isDismissed, prevSelectedVenueIdRef,
          expandedCardOverride, expandedLocalDates, miniCardOverrides,
          clickedMarker, selectedPreset, presetRangeDates, clickedDate,
          isVisible, showTimer, activeCardIndex, highlightedVenueId>>

---------------------------------------------------------------------------
(* Bounds *)

MaxRecords == 3
MaxItems == 2
MaxMapClicks == 2

---------------------------------------------------------------------------
(* Strings *)

UpperSeq == <<"A","B","C","D","E","F","G","H","I","J","K","L","M",
              "N","O","P","Q","R","S","T","U","V","W","X","Y","Z">>
LowerSeq == <<"a","b","c","d","e","f","g","h","i","j","k","l","m",
              "n","o","p","q","r","s","t","u","v","w","x","y","z">>
DigitSeq == <<"0","1","2","3","4","5","6","7","8","9">>

Range(s) == {s[i] : i \in 1..Len(s)}

IsLetter(c) == c \in Range(UpperSeq) \cup Range(LowerSeq)
IsDigit(c) == c \in Range(DigitSeq)
IsSpace(c) == c = " "

ToLowerChar(c) ==
    IF c \in Range(UpperSeq)
    THEN LowerSeq[CHOOSE i \in 1..Len(UpperSeq) : UpperSeq[i] = c]
    ELSE c

ToUpperChar(c) ==
    IF c \in Range(LowerSeq)
    THEN UpperSeq[CHOOSE i \in 1..Len(LowerSeq) : LowerSeq[i] = c]
    ELSE c

\* String.prototype.toLowerCase / toUpperCase
ToLowerCase(s) == [i \in 1..Len(s) |-> ToLowerChar(s[i])]
ToUpperCase(s) == [i \in 1..Len(s) |-> ToUpperChar(s[i])]

\* String.prototype.trim
Trim(s) ==
    LET keep == {i \in 1..Len(s) : ~IsSpace(s[i])}
    IN  IF keep = {} THEN <<>>
        ELSE LET lo == CHOOSE i \in keep : \A j \in keep : i <= j
                 hi == CHOOSE i \in keep : \A j \in keep : j <= i
             IN  SubSeq(s, lo, hi)

\* String.prototype.indexOf, 1-based; 0 when `pat` does not occur
IndexOf(s, pat) ==
    LET hits == {i \in 1..(Len(s) - Len(pat) + 1) :
                    SubSeq(s, i, i + Len(pat) - 1) = pat}
    IN  IF hits = {} THEN 0 ELSE CHOOSE i \in hits : \A j \in hits : i <= j

Includes(s, pat) == IndexOf(s, pat) > 0

EndsWith(s, pat) ==
    Len(s) >= Len(pat) /\ SubSeq(s, Len(s) - Len(pat) + 1, Len(s)) = pat

\* Array.prototype.join
RECURSIVE JoinWith(_, _)
JoinWith(parts, sep) ==
    IF parts = <<>> THEN <<>>
    ELSE IF Len(parts) = 1 THEN parts[1]
    ELSE parts[1] \o sep \o JoinWith(Tail(parts), sep)

\* Number.prototype.toString for a non-negative integer
RECURSIVE NumToString(_)
NumToString(n) ==
    IF n < 10 THEN <<DigitSeq[n + 1]>>
    ELSE NumToString(n \div 10) \o <<DigitSeq[(n % 10) + 1]>>

\* JavaScript truthiness of a string or of a number
Truthy(s) == s # <<>>

---------------------------------------------------------------------------
(* Dates.  A parsed instant is [nan, t]: new Date(s).getTime() is NaN for  *)
(* a string that does not parse, and every comparison with NaN is false.   *)

NaN == [nan |-> TRUE, t |-> 0]
At(t) == [nan |-> FALSE, t |-> t]

IsoPrefix == <<"2","0","2","5","-","0","6","-","0">>
IsoMay31 == <<"2","0","2","5","-","0","5","-","3","1">>

DigitValue(c) == (CHOOSE i \in 1..10 : DigitSeq[i] = c) - 1

\* new Date(s).getTime() for the ISO forms the data carries: a date-only
\* string is UTC midnight, "YYYY-MM-DDThh:00Z" is that UTC hour; anything
\* else (free text, the empty string) is an Invalid Date.
ParseDate(s) ==
    IF s = IsoMay31 THEN At(0)
    ELSE IF Len(s) = 10 /\ SubSeq(s, 1, 9) = IsoPrefix /\ IsDigit(s[10])
              /\ DigitValue(s[10]) >= 1
         THEN At(24 * DigitValue(s[10]))
    ELSE IF Len(s) = 17 /\ SubSeq(s, 1, 9) = IsoPrefix /\ IsDigit(s[10])
              /\ DigitValue(s[10]) >= 1 /\ s[11] = "T"
              /\ IsDigit(s[12]) /\ IsDigit(s[13])
              /\ 10 * DigitValue(s[12]) + DigitValue(s[13]) < 24
              /\ SubSeq(s, 14, 17) = <<":","0","0","Z">>
         THEN At(24 * DigitValue(s[10])
                 + 10 * DigitValue(s[12]) + DigitValue(s[13]))
    ELSE NaN

\* new Date().toISOString().split('T')[0]: the UTC calendar day of `now`
TodayIso(now) ==
    IF now \div 24 = 0 THEN IsoMay31
    ELSE IsoPrefix \o <<DigitSeq[(now \div 24) + 1]>>

\* The local calendar day (days since 2025-05-31) an instant falls on
LocalDay(t, tz) == (t + tz) \div 24

\* Date.prototype.setHours(0, 0, 0, 0): local midnight of the instant's day
LocalMidnight(t, tz) == 24 * LocalDay(t, tz) - tz

DayNames == <<"Fri May 30 2025", "Sat May 31 2025", "Sun Jun 01 2025",
              "Mon Jun 02 2025", "Tue Jun 03 2025", "Wed Jun 04 2025",
              "Thu Jun 05 2025", "Fri Jun 06 2025", "Sat Jun 07 2025",
              "Sun Jun 08 2025", "Mon Jun 09 2025", "Tue Jun 10 2025",
              "Wed Jun 11 2025", "Thu Jun 12 2025", "Fri Jun 13 2025",
              "Sat Jun 14 2025", "Sun Jun 15 2025", "Mon Jun 16 2025",
              "Tue Jun 17 2025", "Wed Jun 18 2025", "Thu Jun 19 2025",
              "Fri Jun 20 2025", "Sat Jun 21 2025", "Sun Jun 22 2025",
              "Mon Jun 23 2025", "Tue Jun 24 2025", "Wed Jun 25 2025",
              "Thu Jun 26 2025", "Fri Jun 27 2025", "Sat Jun 28 2025",
              "Sun Jun 29 2025", "Mon Jun 30 2025", "Tue Jul 01 2025",
              "Wed Jul 02 2025", "Thu Jul 03 2025", "Fri Jul 04 2025",
              "Sat Jul 05 2025", "Sun Jul 06 2025", "Mon Jul 07 2025",
              "Tue Jul 08 2025", "Wed Jul 09 2025", "Thu Jul 10 2025",
              "Fri Jul 11 2025", "Sat Jul 12 2025", "Sun Jul 13 2025",
              "Mon Jul 14 2025", "Tue Jul 15 2025", "Wed Jul 16 2025",
              "Thu Jul 17 2025", "Fri Jul 18 2025", "Sat Jul 19 2025",
              "Sun Jul 20 2025", "Mon Jul 21 2025", "Tue Jul 22 2025",
              "Wed Jul 23 2025", "Thu Jul 24 2025", "Fri Jul 25 2025",
              "Sat Jul 26 2025", "Sun Jul 27 2025", "Mon Jul 28 2025",
              "Tue Jul 29 2025", "Wed Jul 30 2025", "Thu Jul 31 2025">>

\* Date.prototype.toDateString, in the local zone
ToDateString(d, tz) ==
    IF d.nan THEN "Invalid Date" ELSE DayNames[LocalDay(d.t, tz) + 2]

\* new Date(dateKey).getTime() for a toDateString() string: local midnight
ParseDateKey(k, tz) ==
    IF \E i \in 1..Len(DayNames) : DayNames[i] = k
    THEN At(24 * ((CHOOSE i \in 1..Len(DayNames) : DayNames[i] = k) - 2) - tz)
    ELSE NaN

\* Math.abs(a.getTime() - b)
AbsDiff(d, t) ==
    IF d.nan THEN NaN ELSE At(IF d.t >= t THEN d.t - t ELSE t - d.t)

\* a < b on numbers, false when either is NaN
NumLess(a, b) == ~a.nan /\ ~b.nan /\ a.t < b.t

---------------------------------------------------------------------------
(* lib/stacked-card-adapter *)

TimeSep == <<" ", "-", " ">>

\* trimmed.match(/^\d{1,2}:\d{2}\s?(AM|PM)$/i)
MatchesSingleTime(s) ==
    \E k \in {1, 2}, sp \in {0, 1} :
        /\ Len(s) = k + 3 + sp + 2
        /\ \A i \in 1..k : IsDigit(s[i])
        /\ s[k + 1] = ":"
        /\ IsDigit(s[k + 2]) /\ IsDigit(s[k + 3])
        /\ sp = 1 => IsSpace(s[k + 4])
        /\ ToUpperCase(SubSeq(s, k + 4 + sp, k + 5 + sp))
               \in {<<"A","M">>, <<"P","M">>}

parseEventTime(event_time) ==
    IF ~Truthy(event_time) THEN [startTime |-> <<>>, endTime |-> <<>>]
    ELSE LET trimmed == Trim(event_time)
             i1 == IndexOf(trimmed, TimeSep)
         IN  IF i1 > 0
             THEN LET rest == SubSeq(trimmed, i1 + 3, Len(trimmed))
                      i2 == IndexOf(rest, TimeSep)
                  IN  [startTime |-> Trim(SubSeq(trimmed, 1, i1 - 1)),
                       endTime |-> Trim(IF i2 > 0 THEN SubSeq(rest, 1, i2 - 1)
                                                  ELSE rest)]
             ELSE IF MatchesSingleTime(trimmed)
             THEN [startTime |-> trimmed, endTime |-> <<>>]
             ELSE [startTime |-> <<>>, endTime |-> <<>>]

\* mutant: a title of any length is accepted
isValidTitleAnyLength(str) ==
    /\ Truthy(str)
    /\ LET trimmed == Trim(str)
           letterCount == Cardinality({i \in 1..Len(trimmed) : IsLetter(trimmed[i])})
       IN  /\ ~EndsWith(trimmed, <<".", ".", ".">>)
           /\ 2 * letterCount >= Len(trimmed)

isValidTitle(str) ==
    /\ Truthy(str)
    /\ LET trimmed == Trim(str)
           letterCount == Cardinality({i \in 1..Len(trimmed) : IsLetter(trimmed[i])})
       IN  /\ Len(trimmed) >= 4
           /\ ~EndsWith(trimmed, <<".", ".", ".">>)
           /\ 2 * letterCount >= Len(trimmed)

FallbackTitle == <<"E","v","e","n","t">>

selectBestTitle(event_name, artist, venue_name) ==
    IF isValidTitle(event_name) THEN Trim(event_name)
    ELSE IF isValidTitle(artist) THEN Trim(artist)
    ELSE IF isValidTitle(venue_name) THEN Trim(venue_name)
    ELSE FallbackTitle

calculateDataCompleteness(card) ==
      (IF Truthy(card.event.artist) THEN 2 ELSE 0)
    + (IF Truthy(card.event.music_genre) THEN 2 ELSE 0)
    + (IF Truthy(card.event.event_vibe) THEN 2 ELSE 0)
    + (IF Truthy(card.event.analysis_notes) THEN 1 ELSE 0)
    + (IF Truthy(card.event.event_subtitle) THEN 1 ELSE 0)
    + (IF Truthy(card.venue.venue_instagram) THEN 1 ELSE 0)
    + (IF Truthy(card.venue.venue_phone) THEN 1 ELSE 0)
    + (IF Truthy(card.venue.venue_website) THEN 1 ELSE 0)
    + (IF Truthy(card.venue.venue_address) THEN 1 ELSE 0)
    + (IF Truthy(card.venue.venue_highlights) THEN 1 ELSE 0)

\* subtitleParts of one record: first category's secondary, first venue
\* attribute, then first status attribute or else first energy attribute
SubtitleParts(venue) ==
       (IF venue.event_categories # <<>> /\ Truthy(venue.event_categories[1].secondary)
        THEN <<venue.event_categories[1].secondary>> ELSE <<>>)
    \o (IF venue.attributes.venue # <<>> THEN <<venue.attributes.venue[1]>> ELSE <<>>)
    \o (IF venue.attributes.status # <<>> THEN <<venue.attributes.status[1]>>
        ELSE IF venue.attributes.energy # <<>> THEN <<venue.attributes.energy[1]>>
        ELSE <<>>)

VenueIdString(venue) ==
    IF venue.venue_id = 0 THEN <<>> ELSE NumToString(venue.venue_id)

OrElse(a, b) == IF Truthy(a) THEN a ELSE b

\* Step 1 of transformSupabaseDataToStackedCards: one record to one card.
\* `index` is the 0-based position of the record, `now` the instant of the call.
ToCard(venue, index, now) ==
    LET timing == parseEventTime(venue.event_time)
    IN  [event |->
           [id |-> OrElse(venue.event_id,
                          <<"e","v","e","n","t","-">> \o
                          (IF venue.venue_id = 0
                           THEN <<"u","n","d","e","f","i","n","e","d">>
                           ELSE NumToString(venue.venue_id))
                          \o <<"-">> \o NumToString(index)),
            venue_id |-> VenueIdString(venue),
            event_name |-> selectBestTitle(venue.event_name, venue.artist, venue.name),
            event_subtitle |-> ToUpperCase(JoinWith(SubtitleParts(venue), <<" ","|"," ">>)),
            event_time_start |-> timing.startTime,
            event_time_end |-> timing.endTime,
            event_date |-> OrElse(venue.event_date, TodayIso(now)),
            artist |-> venue.artist,
            music_genre |-> JoinWith(venue.music_genre, <<",", " ">>),
            event_vibe |-> JoinWith(venue.event_vibe, <<" ","|"," ">>),
            analysis_notes |-> venue.analysis_notes,
            event_categories |-> venue.event_categories],
         venue |->
           [id |-> VenueIdString(venue),
            venue_name |-> OrElse(venue.name, <<"V","e","n","u","e">>),
            venue_instagram |-> venue.final_instagram,
            venue_phone |-> venue.phone,
            venue_website |-> OrElse(venue.website, venue.venue_website),
            venue_address |-> OrElse(venue.address, venue.venue_address),
            venue_highlights |-> venue.venue_highlights]]

AllCards(vs, now) == [i \in 1..Len(vs) |-> ToCard(vs[i], i - 1, now)]

Pipe == <<"|">>

\* The composite key: `${venueId}|${eventName}|${eventDate}|${eventTimeStart}`
DeduplicationKey(card) ==
    card.venue.id \o Pipe \o Trim(ToLowerCase(card.event.event_name))
        \o Pipe \o card.event.event_date \o Pipe \o card.event.event_time_start

\* A JavaScript Map is a sequence of [key, value] entries in insertion
\* order; set() on a present key replaces the value where it stands.
MapHas(m, k) == \E i \in 1..Len(m) : m[i].key = k
MapGet(m, k) == m[CHOOSE i \in 1..Len(m) : m[i].key = k].value
\* mutant: a new key is put in front of the entries instead of behind them
MapSetFront(m, k, v) ==
    IF MapHas(m, k)
    THEN [i \in 1..Len(m) |-> IF m[i].key = k THEN [key |-> k, value |-> v] ELSE m[i]]
    ELSE <<[key |-> k, value |-> v]>> \o m
\* mutant: a replaced key is deleted and entered again, at the end
MapSetMoveToEnd(m, k, v) ==
    Append(SelectSeq(m, LAMBDA e : e.key # k), [key |-> k, value |-> v])
MapSet(m, k, v) ==
    IF MapHas(m, k)
    THEN [i \in 1..Len(m) |-> IF m[i].key = k THEN [key |-> k, value |-> v] ELSE m[i]]
    ELSE Append(m, [key |-> k, value |-> v])
MapValues(m) == [i \in 1..Len(m) |-> m[i].value]
MapKeys(m) == [i \in 1..Len(m) |-> m[i].key]

\* mutant: a duplicate replaces the kept card already on an equal score
DedupStepReplaceOnTie(m, card) ==
    LET k == DeduplicationKey(card)
    IN  IF ~MapHas(m, k) THEN MapSet(m, k, card)
        ELSE IF calculateDataCompleteness(card) >= calculateDataCompleteness(MapGet(m, k))
        THEN MapSet(m, k, card)
        ELSE m

\* One iteration of allCards.forEach in step 2
DedupStep(m, card) ==
    LET k == DeduplicationKey(card)
    IN  IF ~MapHas(m, k) THEN MapSet(m, k, card)
        ELSE IF calculateDataCompleteness(card) > calculateDataCompleteness(MapGet(m, k))
        THEN MapSet(m, k, card)
        ELSE m

RECURSIVE DedupFold(_, _, _)
DedupFold(m, cs, i) ==
    IF i > Len(cs) THEN m ELSE DedupFold(DedupStep(m, cs[i]), cs, i + 1)

\* Step 2 of transformSupabaseDataToStackedCards
DeduplicateCards(cs) == MapValues(DedupFold(<<>>, cs, 1))

transformSupabaseDataToStackedCards(vs, now) == DeduplicateCards(AllCards(vs, now))

---------------------------------------------------------------------------
(* Input records *)

GlowParty == <<"G","l","o","w"," ","P","a","r","t","y">>
GlowPartyLoose == <<"g","l","o","w"," ","p","a","r","t","y"," ">>
GalaLive == <<"G","a","l","a"," ","N","i","g","h","t"," ","L","i","v","e">>
ClubAlpha == <<"C","l","u","b"," ","A","l","p","h","a">>
SkyBar == <<"S","k","y"," ","B","a","r">>
DjX == <<"D","J"," ","X">>
House == <<"H","o","u","s","e">>
Nightlife == <<"N","i","g","h","t","l","i","f","e">>
RooftopVenue == <<"R","o","o","f","t","o","p"," ","V","e","n","u","e">>
Nightclub == <<"N","i","g","h","t","c","l","u","b">>
MusicEvents == <<"M","u","s","i","c"," ","E","v","e","n","t","s">>
Electronic == <<"E","l","e","c","t","r","o","n","i","c">>
Phone == <<"+","9","7","1">>
Site == <<"a",".","a","e">>
Street == <<"J","B","R">>

D0601 == IsoPrefix \o <<"1">>
D0602 == IsoPrefix \o <<"2">>
D0603 == IsoPrefix \o <<"3">>
D0601Late == D0601 \o <<"T","2","1",":","0","0","Z">>
Tba == <<"T","B","A">>

T10pm == <<"1","0",":","0","0"," ","P","M">>
T9pm == <<"9",":","0","0"," ","P","M">>
T2am == <<"2",":","0","0"," ","A","M">>
T8to2 == <<"8",":","0","0"," ","P","M">> \o TimeSep \o T2am
T9to2 == T9pm \o TimeSep \o T2am

NoAttributes == [venue |-> <<>>, energy |-> <<>>, status |-> <<>>]

\* A SupabaseVenueEvent with only the venue and the event named
Record(venue_id, name, event_name, event_date, event_time) ==
    [venue_id |-> venue_id, event_id |-> <<>>, name |-> name,
     event_name |-> event_name, artist |-> <<>>,
     event_date |-> event_date, event_time |-> event_time,
     music_genre |-> <<>>, event_vibe |-> <<>>, analysis_notes |-> <<>>,
     final_instagram |-> <<>>, phone |-> <<>>, website |-> <<>>,
     venue_website |-> <<>>, address |-> <<>>, venue_address |-> <<>>,
     venue_highlights |-> <<>>, event_categories |-> <<>>,
     attributes |-> NoAttributes]

Glow == Record(1, ClubAlpha, GlowParty, D0601, T10pm)
Gala == Record(2, SkyBar, GalaLive, D0602, T8to2)

\* the same event as Glow, entered again with more or less data
GlowArtist == [Glow EXCEPT !.event_name = GlowPartyLoose, !.artist = DjX]
GlowGenre == [Glow EXCEPT !.music_genre = <<House>>]
GlowContact == [Glow EXCEPT !.phone = Phone, !.venue_website = Site,
                            !.address = Street]
\* other occurrences of it
GlowLate == [Glow EXCEPT !.event_date = D0601Late]
GlowJun3 == [Glow EXCEPT !.event_date = D0603,
                !.event_categories = <<[primary |-> Nightlife,
                                        secondary |-> RooftopVenue]>>]
GlowTba == [Glow EXCEPT !.event_date = Tba, !.event_time = <<>>]
GlowUndated == [Glow EXCEPT !.event_date = <<>>]
GalaNoVenue == [Gala EXCEPT !.venue_id = 0]
\* an undated occurrence at another hour of the evening
GlowUndated9pm == [GlowUndated EXCEPT !.event_time = T9pm]
\* two different events whose fields hold the key's separator
GalaPipeName == [Gala EXCEPT !.event_name = GalaLive \o Pipe \o D0602,
                             !.event_date = D0601, !.event_time = T9pm]
GalaPipeTime == [Gala EXCEPT !.event_time = D0601 \o Pipe \o T9to2]

AdapterRecords == {Glow, GlowArtist, GlowGenre, GlowContact, GlowJun3,
                   GlowUndated, Gala, GalaNoVenue, GalaPipeName, GalaPipeTime}

SeqsUpTo(S, n) == UNION {[1..k -> S] : k \in 0..n}

\* The instants a run may see, in a zone four hours ahead of UTC (Dubai):
\* 42 is Jun 1 both locally and in UTC, 46 is Jun 2 locally and Jun 1 in
\* UTC, 54 and 60 are Jun 2 in both.
Clocks == {[now |-> n, tz |-> 4] : n \in {42, 46, 54, 60}}

---------------------------------------------------------------------------
(* The category filter: CategoryPills and convertHierarchicalToFlat *)

\* useState<HierarchicalFilterState> of the list view, the fields the
\* category pills read and write
InitialFilters ==
    [eventCategories |-> [selectedPrimaries |-> <<>>,
                          selectedSecondaries |-> <<>>,
                          expandedPrimaries |-> <<>>],
     attributes |-> [venue |-> <<>>, energy |-> <<>>,
                     timing |-> <<>>, status |-> <<>>],
     quickFilters |-> <<>>,
     selectedRatings |-> <<>>,
     selectedTicketPrices |-> <<>>]

\* SECONDARY_CATEGORIES_MAP, two of its primaries
SECONDARY_CATEGORIES_MAP ==
    <<[key |-> MusicEvents, value |-> <<Electronic>>],
      [key |-> Nightlife, value |-> <<Nightclub, RooftopVenue>>]>>

PRIMARY_CATEGORIES == MapKeys(SECONDARY_CATEGORIES_MAP)

QUICK_FILTERS == <<"trending", "free", "live-music", "rooftop", "family">>

\* array.includes(x)
ArrayIncludes(a, x) == x \in Range(a)
\* array.filter(y => y !== x)
Without(a, x) == SelectSeq(a, LAMBDA y : y # x)
\* Object.fromEntries(Object.entries(o).filter(([key]) => key !== k))
WithoutKey(o, k) == SelectSeq(o, LAMBDA e : e.key # k)
\* o[k] || []
GetOrEmpty(o, k) == IF MapHas(o, k) THEN MapGet(o, k) ELSE <<>>

\* mutant: a primary's own entry is pushed beside those of its secondaries
RECURSIVE FlattenAlsoPrimary(_, _)
FlattenAlsoPrimary(ec, i) ==
    IF i > Len(ec.selectedPrimaries) THEN <<>>
    ELSE LET primary == ec.selectedPrimaries[i]
             secondaries == GetOrEmpty(ec.selectedSecondaries, primary)
         IN  <<[primary |-> primary, secondary |-> <<>>]>>
             \o [j \in 1..Len(secondaries) |->
                    [primary |-> primary, secondary |-> secondaries[j]]]
             \o FlattenAlsoPrimary(ec, i + 1)

\* selectedPrimaries.forEach of convertHierarchicalToFlat, from the i-th on;
\* an entry {primary} has no secondary
RECURSIVE FlattenEventCategories(_, _)
FlattenEventCategories(ec, i) ==
    IF i > Len(ec.selectedPrimaries) THEN <<>>
    ELSE LET primary == ec.selectedPrimaries[i]
             secondaries == GetOrEmpty(ec.selectedSecondaries, primary)
         IN  (IF Len(secondaries) > 0
              THEN [j \in 1..Len(secondaries) |->
                       [primary |-> primary, secondary |-> secondaries[j]]]
              ELSE <<[primary |-> primary, secondary |-> <<>>]>>)
             \o FlattenEventCategories(ec, i + 1)

\* The eventCategories and attributes of the flat filter state
convertHierarchicalToFlat(hierarchicalState) ==
    [eventCategories |->
         FlattenEventCategories(hierarchicalState.eventCategories, 1),
     attributes |->
         [f \in {"venue", "energy", "timing", "status"} |->
             IF Len(hierarchicalState.attributes[f]) > 0
             THEN hierarchicalState.attributes[f] ELSE <<>>]]

\* The category facet of the filter evaluator: no primary selected, or a
\* tag whose primary is selected and whose secondary is among that
\* primary's selected secondaries when it has any
MatchesCategory(venue, ec) ==
    \/ Len(ec.selectedPrimaries) = 0
    \/ \E t \in 1..Len(venue.event_categories) :
          LET tag == venue.event_categories[t]
              secondaries == GetOrEmpty(ec.selectedSecondaries, tag.primary)
          IN  /\ ArrayIncludes(ec.selectedPrimaries, tag.primary)
              /\ Len(secondaries) > 0 => ArrayIncludes(secondaries, tag.secondary)

---------------------------------------------------------------------------
(* The adapter, run on a sequence of records *)

HomeIdle ==
    /\ allVenues = <<>> /\ filteredVenues = <<>> /\ activeDates = <<>>
    /\ venueDateMap = <<>> /\ indexAt = clock
    /\ cards = <<>> /\ cardsAt = clock
    /\ displayCards = <<>>
    /\ cardsAgain = <<>> /\ againAt = clock
    /\ optionDates = <<>> /\ dateOptions = <<>>
    /\ eventCountsByDate = <<>>

CategoryIdle ==
    /\ filters = InitialFilters
    /\ flatFilters = convertHierarchicalToFlat(InitialFilters)

TextIdle ==
    /\ textArg = <<>> /\ textResult = <<>>

\* MobileEventList as it mounts, and Home's state that it is given
PanelIdle ==
    /\ selectedVenue = <<>> /\ mapClickCount = 0
    /\ mode = "list" /\ markerVenueId = <<>>
    /\ markerFullScreen = FALSE /\ listFullScreenVenueId = <<>>
    /\ isDismissed = FALSE /\ prevSelectedVenueIdRef = 0
    /\ expandedCardOverride = <<>> /\ expandedLocalDates = <<>>
    /\ miniCardOverrides = <<>>
    /\ clickedMarker = <<>>
    /\ isVisible = FALSE /\ showTimer = FALSE
    /\ activeCardIndex = 0 /\ highlightedVenueId = <<>>

\* TopNav as it mounts: useState<DateRangePreset>('all')
TopNavIdle ==
    /\ selectedPreset = "all" /\ presetRangeDates = <<>>
    /\ clickedDate = <<>>

InitAdapter ==
    /\ venues \in SeqsUpTo(AdapterRecords, MaxRecords)
    /\ clock \in {c \in Clocks : c.now \in {46, 54}}
    /\ pc = "input"
    /\ stacked = <<>>
    /\ restacked = <<>>
    /\ HomeIdle
    /\ CategoryIdle
    /\ TextIdle
    /\ PanelIdle
    /\ TopNavIdle

RunTransform ==
    /\ pc = "input"
    /\ stacked' = transformSupabaseDataToStackedCards(venues, clock.now)
    /\ pc' = "transformed"
    /\ UNCHANGED <<venues, restacked, clock, homeVars, categoryVars, textVars, navVars, panelVars>>

RunDedupAgain ==
    /\ pc = "transformed"
    /\ restacked' = DeduplicateCards(stacked)
    /\ pc' = "rerun"
    /\ UNCHANGED <<venues, stacked, clock, homeVars, categoryVars, textVars, navVars, panelVars>>

NextAdapter == RunTransform \/ RunDedupAgain

SpecAdapter == InitAdapter /\ [][NextAdapter]_vars

---------------------------------------------------------------------------
(* Claims on the strict deduplication *)

\* the cards of step 1 for the input of this run
InputCards == AllCards(venues, clock.now)

KeysOf(cs) == [i \in 1..Len(cs) |-> DeduplicationKey(cs[i])]

\* C1: the deduplication step applied to its own output returns that
\* output unchanged, the same cards in the same order.
C1_DedupIdempotent == pc = "rerun" => restacked = stacked

\* C1 witness: a run in which the first pass merged duplicates and still
\* left several cards for the second pass
C1_Witness ==
    /\ pc = "rerun"
    /\ Len(stacked) >= 2
    /\ Len(stacked) < Len(venues)

\* The identity tuple of the claim: (venue identifier, lower-cased trimmed
\* event name, event date, event start time)
IdentityTuple(card) ==
    <<card.venue.id, Trim(ToLowerCase(card.event.event_name)),
      card.event.event_date, card.event.event_time_start>>

\* C2: the output holds exactly one card per distinct identity tuple among
\* the transformed cards: every tuple is represented, none twice, so two
\* cards are merged only if they agree on all four components.
C2_OneCardPerTuple ==
    pc # "input" =>
        /\ {IdentityTuple(stacked[i]) : i \in 1..Len(stacked)}
              = {IdentityTuple(InputCards[i]) : i \in 1..Len(InputCards)}
        /\ \A i, j \in 1..Len(stacked) :
              IdentityTuple(stacked[i]) = IdentityTuple(stacked[j]) => i = j

\* The completeness score as the claim words it
ClaimScore(card) ==
      2 * Cardinality({f \in {"artist", "music_genre", "event_vibe"} :
                          card.event[f] # <<>>})
    + Cardinality({f \in {"analysis_notes", "event_subtitle"} : card.event[f] # <<>>})
    + Cardinality({f \in {"venue_instagram", "venue_phone", "venue_website",
                          "venue_address", "venue_highlights"} : card.venue[f] # <<>>})

\* the position in `cs` of the earliest card with the highest score among
\* those whose key is k
BestOf(cs, k) ==
    CHOOSE i \in 1..Len(cs) :
        /\ DeduplicationKey(cs[i]) = k
        /\ \A j \in 1..Len(cs) :
              DeduplicationKey(cs[j]) = k =>
                  \/ ClaimScore(cs[j]) < ClaimScore(cs[i])
                  \/ ClaimScore(cs[j]) = ClaimScore(cs[i]) /\ i <= j

\* C3: among the input cards sharing one composite key, the card kept has
\* the highest completeness score, and of several with that score the
\* earliest in input order is the one kept.
C3_KeepsMostComplete ==
    pc # "input" =>
        \A i \in 1..Len(stacked) :
            stacked[i] = InputCards[BestOf(InputCards, DeduplicationKey(stacked[i]))]

\* C3 witness: three duplicates, the first beaten by the second, the third
\* tying with the second, and the second differing from the third
C3_Witness ==
    /\ pc # "input"
    /\ \E i, j, k \in 1..Len(InputCards) :
          /\ i < j /\ j < k
          /\ DeduplicationKey(InputCards[i]) = DeduplicationKey(InputCards[j])
          /\ DeduplicationKey(InputCards[j]) = DeduplicationKey(InputCards[k])
          /\ ClaimScore(InputCards[i]) < ClaimScore(InputCards[j])
          /\ ClaimScore(InputCards[j]) = ClaimScore(InputCards[k])
          /\ Truthy(InputCards[j].event.artist)
          /\ ~Truthy(InputCards[k].event.artist)

\* the keys of `ks` in order of first appearance
RECURSIVE FirstAppearances(_, _)
FirstAppearances(ks, i) ==
    IF i > Len(ks) THEN <<>>
    ELSE (IF \E j \in 1..(i - 1) : ks[j] = ks[i] THEN <<>> ELSE <<ks[i]>>)
         \o FirstAppearances(ks, i + 1)

\* C4: the output lists the cards in the order in which their composite
\* keys first appear in the input, also when a later duplicate has
\* replaced the first-seen card of a key.
C4_FirstAppearanceOrder ==
    pc # "input" => KeysOf(stacked) = FirstAppearances(KeysOf(InputCards), 1)

\* C4 witness: a key seen first, then another key, then a more complete
\* duplicate of the first
C4_Witness ==
    /\ pc # "input"
    /\ \E i, j, k \in 1..Len(InputCards) :
          /\ i < j /\ j < k
          /\ DeduplicationKey(InputCards[i]) # DeduplicationKey(InputCards[j])
          /\ DeduplicationKey(InputCards[i]) = DeduplicationKey(InputCards[k])
          /\ ClaimScore(InputCards[i]) < ClaimScore(InputCards[k])

---------------------------------------------------------------------------
(* app/page.tsx (Home), MobileEventList, DatePillsRow *)

\* Array.prototype.sort((a, b) => a.k - b.k) on [k, v] pairs: a stable sort
InsertPair(sorted, x) ==
    LET n == Cardinality({i \in 1..Len(sorted) : sorted[i].k <= x.k})
    IN  SubSeq(sorted, 1, n) \o <<x>> \o SubSeq(sorted, n + 1, Len(sorted))

RECURSIVE SortPairs(_)
SortPairs(s) ==
    IF s = <<>> THEN <<>>
    ELSE InsertPair(SortPairs(SubSeq(s, 1, Len(s) - 1)), s[Len(s)])

\* Array.prototype.sort((a, b) => key(a) - key(b)), keys[i] the key of s[i]
SortByKey(s, keys) ==
    LET sorted == SortPairs([i \in 1..Len(s) |-> [k |-> keys[i], v |-> s[i]]])
    IN  [i \in 1..Len(s) |-> sorted[i].v]

\* toLocaleDateString('en-US', {weekday: 'short'}).toUpperCase() and
\* toLocaleDateString('en-US', {month: 'short', day: 'numeric'}), by local day
WeekdayLabels == <<"FRI", "SAT", "SUN", "MON", "TUE", "WED",
                   "THU", "FRI", "SAT", "SUN", "MON", "TUE">>
MonthDayLabels == <<"May 30", "May 31", "Jun 1", "Jun 2", "Jun 3", "Jun 4",
                    "Jun 5", "Jun 6", "Jun 7", "Jun 8", "Jun 9", "Jun 10">>

\* mutant: the entry is flagged against the instant of the build, not its day
IsTodayExactInstant(d, today, tz) == d = At(today)
\* d.toDateString() === today.toDateString()
IsToday(d, today, tz) == ToDateString(d, tz) = ToDateString(At(today), tz)

\* The DateOption pushed for a parsed event date `d`
DateOption(d, today, tz) ==
    [day |-> WeekdayLabels[LocalDay(d.t, tz) + 2],
     date |-> MonthDayLabels[LocalDay(d.t, tz) + 2],
     dateKey |-> ToDateString(d, tz),
     isToday |-> IsToday(d, today, tz)]

HasDateKey(options, dateKey) ==
    \E i \in 1..Len(options) : options[i].dateKey = dateKey

\* mutant: the venue's list is created before the date is looked at
VenueDateStepKeyFirst(m, venue, today, tz) ==
    IF ~Truthy(venue.event_date) \/ venue.venue_id = 0 THEN m
    ELSE LET venueKey == NumToString(venue.venue_id)
             d == ParseDate(venue.event_date)
             m1 == IF MapHas(m, venueKey) THEN m ELSE MapSet(m, venueKey, <<>>)
             existing == MapGet(m1, venueKey)
         IN  IF d.nan \/ HasDateKey(existing, ToDateString(d, tz)) THEN m1
             ELSE MapSet(m1, venueKey, Append(existing, DateOption(d, today, tz)))

\* One iteration of allVenues.forEach in venueDateMap
VenueDateStep(m, venue, today, tz) ==
    IF ~Truthy(venue.event_date) \/ venue.venue_id = 0 THEN m
    ELSE LET venueKey == NumToString(venue.venue_id)
             d == ParseDate(venue.event_date)
         IN  IF d.nan THEN m
             ELSE LET m1 == IF MapHas(m, venueKey) THEN m
                            ELSE MapSet(m, venueKey, <<>>)
                      existing == MapGet(m1, venueKey)
                  IN  IF HasDateKey(existing, ToDateString(d, tz)) THEN m1
                      ELSE MapSet(m1, venueKey,
                                  Append(existing, DateOption(d, today, tz)))

RECURSIVE VenueDateFold(_, _, _, _, _)
VenueDateFold(m, vs, i, today, tz) ==
    IF i > Len(vs) THEN m
    ELSE VenueDateFold(VenueDateStep(m, vs[i], today, tz), vs, i + 1, today, tz)

\* mutant: the lists are left in the order of the records
SortDatesNot(dates, tz) == dates
\* dates.sort((a, b) => new Date(a.dateKey).getTime() - new Date(b.dateKey).getTime())
SortDates(dates, tz) ==
    SortByKey(dates, [i \in 1..Len(dates) |->
                         ParseDateKey(dates[i].dateKey, tz).t])

\* useMemo venueDateMap of Home
VenueDateMap(vs, c) ==
    LET m == VenueDateFold(<<>>, vs, 1, LocalMidnight(c.now, c.tz), c.tz)
    IN  [i \in 1..Len(m) |->
            [key |-> m[i].key, value |-> SortDates(m[i].value, c.tz)]]

\* The key of the home page's deduplication: venue and event name
LooseKey(card) ==
    card.venue.id \o Pipe \o Trim(ToLowerCase(card.event.event_name))

\* Math.abs(new Date(card.event.event_date).getTime() - todayTime)
DistanceTo(card, todayTime) == AbsDiff(ParseDate(card.event.event_date), todayTime)

\* mutant: on equal distances the later card replaces the kept one
LooseStepReplaceOnTie(m, card, todayTime) ==
    LET k == LooseKey(card)
    IN  IF ~MapHas(m, k) THEN MapSet(m, k, card)
        ELSE IF ~NumLess(DistanceTo(MapGet(m, k), todayTime), DistanceTo(card, todayTime))
        THEN MapSet(m, k, card)
        ELSE m

\* One iteration of rawCards.forEach in cards
LooseStep(m, card, todayTime) ==
    LET k == LooseKey(card)
    IN  IF ~MapHas(m, k) THEN MapSet(m, k, card)
        ELSE IF NumLess(DistanceTo(card, todayTime), DistanceTo(MapGet(m, k), todayTime))
        THEN MapSet(m, k, card)
        ELSE m

RECURSIVE LooseFold(_, _, _, _)
LooseFold(m, cs, i, todayTime) ==
    IF i > Len(cs) THEN m
    ELSE LooseFold(LooseStep(m, cs[i], todayTime), cs, i + 1, todayTime)

LooseDedup(cs, todayTime) == MapValues(LooseFold(<<>>, cs, 1, todayTime))

\* new Date(card.event.event_date).toDateString()
CardDateKey(card, tz) == ToDateString(ParseDate(card.event.event_date), tz)

\* mutant: the date filter is applied whether or not dates are selected
PostFilterAlways(cs, dates, tz) ==
    SelectSeq(cs, LAMBDA card : CardDateKey(card, tz) \in Range(dates))
\* The post-filter of cards: only when dates are active
PostFilter(cs, dates, tz) ==
    IF Len(dates) > 0
    THEN SelectSeq(cs, LAMBDA card : CardDateKey(card, tz) \in Range(dates))
    ELSE cs

\* new Date(a.event.event_date).getTime() || 0
CardTime(card) ==
    LET d == ParseDate(card.event.event_date) IN IF d.nan THEN 0 ELSE d.t

\* mutant: the distance is taken from the instant of the call
TodayTimeNow(c) == c.now
\* new Date().setHours(0, 0, 0, 0)
TodayTime(c) == LocalMidnight(c.now, c.tz)

\* useMemo cards of Home
HomeCards(fv, dates, c) ==
    LET rawCards == transformSupabaseDataToStackedCards(fv, c.now)
        result == LooseDedup(rawCards, TodayTime(c))
        filtered == PostFilter(result, dates, c.tz)
    IN  SortByKey(filtered, [i \in 1..Len(filtered) |-> CardTime(filtered[i])])

\* useMemo displayCards of MobileEventList
DisplayCards(cs, dates, vdm) ==
    IF Len(dates) = 0 THEN cs
    ELSE SelectSeq(cs, LAMBDA card :
             /\ MapHas(vdm, card.venue.id)
             /\ Len(MapGet(vdm, card.venue.id)) > 0
             /\ \E i \in 1..Len(MapGet(vdm, card.venue.id)) :
                   MapGet(vdm, card.venue.id)[i].dateKey \in Range(dates))

\* lib/filters/date-utils parseDateFromFormat: the Date of a day named in
\* the application's format, an Invalid Date for the empty string, and an
\* exception for anything else.
ParseDateFromFormat(str, tz) ==
    IF str = <<>> THEN [throws |-> FALSE, date |-> NaN]
    ELSE IF Len(str) = 10 /\ ~ParseDate(str).nan
    THEN [throws |-> FALSE, date |-> At(ParseDate(str).t - tz)]
    ELSE [throws |-> TRUE, date |-> NaN]

\* One iteration of allDates.forEach in dateOptions
PillStep(dateMap, dateStr, threeDaysAgo, tz) ==
    LET parsed == ParseDateFromFormat(dateStr, tz)
    IN  IF parsed.throws THEN dateMap
        ELSE IF ~parsed.date.nan /\ parsed.date.t >= threeDaysAgo
                /\ ~MapHas(dateMap, ToDateString(parsed.date, tz))
        THEN MapSet(dateMap, ToDateString(parsed.date, tz), parsed.date)
        ELSE dateMap

RECURSIVE PillFold(_, _, _, _, _)
PillFold(dateMap, ds, i, threeDaysAgo, tz) ==
    IF i > Len(ds) THEN dateMap
    ELSE PillFold(PillStep(dateMap, ds[i], threeDaysAgo, tz), ds, i + 1,
                  threeDaysAgo, tz)

\* useMemo dateOptions of DatePillsRow (the dateKey and isToday of each pill)
DateOptions(ds, c) ==
    LET today == LocalMidnight(c.now, c.tz)
        dateMap == PillFold(<<>>, ds, 1, today - 72, c.tz)
        sortedDates == SortByKey(dateMap,
                           [i \in 1..Len(dateMap) |-> dateMap[i].value.t])
    IN  [i \in 1..Len(sortedDates) |->
            [dateKey |-> sortedDates[i].key,
             isToday |-> IsToday(sortedDates[i].value, today, c.tz)]]

\* One iteration of venues.forEach in eventCountsByDate:
\* counts[dateKey] = (counts[dateKey] || 0) + 1
CountStep(counts, venue, tz) ==
    IF Truthy(venue.event_date)
    THEN LET dateKey == ToDateString(ParseDate(venue.event_date), tz)
         IN  MapSet(counts, dateKey,
                    (IF MapHas(counts, dateKey) THEN MapGet(counts, dateKey) ELSE 0) + 1)
    ELSE counts

RECURSIVE CountFold(_, _, _, _)
CountFold(counts, vs, i, tz) ==
    IF i > Len(vs) THEN counts
    ELSE CountFold(CountStep(counts, vs[i], tz), vs, i + 1, tz)

\* useMemo eventCountsByDate of DatePillsRow
EventCountsByDate(vs, c) == CountFold(<<>>, vs, 1, c.tz)

---------------------------------------------------------------------------
(* The home page: data arrives, dates are picked, time passes *)

HomeRecords == {Glow, GlowLate, GlowJun3, GlowTba, GlowUndated9pm, Gala}

\* What handleDateChange is called with: no date, one date, a range
DateSelections == {<<>>, <<"Sun Jun 01 2025">>,
                   <<"Mon Jun 02 2025", "Tue Jun 03 2025">>}

\* The lists of records the page is given: any of up to MaxRecords records
\* with a venue id, and such a list with a record without one before or
\* after it
VenueLists ==
    SeqsUpTo(HomeRecords, MaxRecords)
        \cup {<<GalaNoVenue>> \o vs : vs \in SeqsUpTo(HomeRecords, MaxRecords - 2)}
        \cup {vs \o <<GalaNoVenue>> : vs \in SeqsUpTo(HomeRecords, MaxRecords - 2)}

\* The instants the page is seen at: the afternoon of Jun 1, the morning
\* and the afternoon of Jun 2
HomeClocks == {c \in Clocks : c.now \in {42, 54, 60}}

AdapterIdle ==
    /\ venues = <<>> /\ stacked = <<>> /\ restacked = <<>>

InitHome ==
    /\ clock \in HomeClocks
    /\ pc = "loading"
    /\ HomeIdle
    /\ AdapterIdle
    /\ CategoryIdle
    /\ TextIdle
    /\ PanelIdle
    /\ TopNavIdle

\* startIndex of the effect on [activeDates, displayCards]: with no date
\* selected the first card of today, else the first card
StartIndex(shown, dates, c) ==
    LET todayStr == ToDateString(At(c.now), c.tz)
        hits == {k \in 1..Len(shown) : CardDateKey(shown[k], c.tz) = todayStr}
    IN  IF dates = <<>> /\ hits # {}
        THEN (CHOOSE k \in hits : \A j \in hits : k <= j) - 1
        ELSE 0

\* displayCards[index]?.venue.id || null
VenueIdAt(shown, index) ==
    IF index < Len(shown) THEN shown[index + 1].venue.id ELSE <<>>

\* The dependencies of the effect that notifies the parent on scroll and
\* mode changes
NotifyDeps ==
    [activeCardIndex |-> activeCardIndex, mode |-> mode,
     markerVenueId |-> markerVenueId, hasCards |-> displayCards # <<>>,
     isDismissed |-> isDismissed]

\* What that effect reports through onActiveCardChange when it runs; with
\* none of its branches taken what was reported last stands
NotifyEffect(d, shown, reported) ==
    IF d.mode = "list" /\ d.hasCards /\ ~d.isDismissed
    THEN VenueIdAt(shown, d.activeCardIndex)
    ELSE IF d.mode = "marker" /\ d.markerVenueId # <<>> THEN d.markerVenueId
    ELSE IF d.isDismissed \/ ~d.hasCards THEN <<>>
    ELSE reported

\* mutant: the cleanup of the effect does not clear the timer
ShowEffectKeepingTimer(before, after, panel) ==
    IF after = before THEN panel
    ELSE IF after[1] /\ ~after[2]
         THEN [isVisible |-> panel.isVisible, showTimer |-> TRUE]
         ELSE [isVisible |-> FALSE, showTimer |-> panel.showTimer]
\* The effect on [hasContent, isDismissed], from one render to the next:
\* its cleanup clears the timer, then it sets a timer or hides the panel
ShowEffect(before, after, panel) ==
    IF after = before THEN panel
    ELSE IF after[1] /\ ~after[2]
         THEN [isVisible |-> panel.isVisible, showTimer |-> TRUE]
         ELSE [isVisible |-> FALSE, showTimer |-> FALSE]

\* MobileEventList's effects that notify the parent and slide the panel,
\* over the renders of one update: the render on the new props, with the
\* panel's own state as it was, and the render on what the other effects
\* and the handler have set.  cardsChanged: activeDates or displayCards
\* were computed again, so the effect on them runs, after it has set
\* activeCardIndex to its start index.
PanelEffects(cardsChanged) ==
    LET shown == displayCards'
        first == NotifyDeps
        render1 == [first EXCEPT !.hasCards = shown # <<>>]
        settled == NotifyDeps'
        r1 == IF cardsChanged THEN VenueIdAt(shown, activeCardIndex')
              ELSE highlightedVenueId
        r2 == IF render1 # first THEN NotifyEffect(render1, shown, r1) ELSE r1
        r3 == IF settled # render1 THEN NotifyEffect(settled, shown, r2)
              ELSE r2
        c0 == <<IF mode = "list" THEN displayCards # <<>>
                ELSE markerVenueId # <<>>, isDismissed>>
        c1 == <<IF mode = "list" THEN shown # <<>>
                ELSE markerVenueId # <<>>, isDismissed>>
        c2 == <<IF mode' = "list" THEN shown # <<>>
                ELSE markerVenueId' # <<>>, isDismissed'>>
        panel == ShowEffect(c1, c2,
                     ShowEffect(c0, c1, [isVisible |-> isVisible,
                                         showTimer |-> showTimer]))
    IN  /\ highlightedVenueId' = r3
        /\ isVisible' = panel.isVisible
        /\ showTimer' = panel.showTimer

\* useClientSideVenues and /api/filter-options resolve and Home renders.
\* The dates the options endpoint lists are those of the events on record.
DataLoaded ==
    /\ pc = "loading"
    /\ \E vs \in VenueLists :
          /\ allVenues' = vs
          /\ filteredVenues' = vs
          /\ optionDates' = [i \in 1..Len(vs) |-> vs[i].event_date]
    /\ venueDateMap' = VenueDateMap(allVenues', clock)
    /\ indexAt' = clock
    /\ cards' = HomeCards(filteredVenues', activeDates, clock)
    /\ cardsAt' = clock
    /\ displayCards' = DisplayCards(cards', activeDates, venueDateMap')
    /\ dateOptions' = DateOptions(optionDates', clock)
    /\ eventCountsByDate' = EventCountsByDate(filteredVenues', clock)
    /\ pc' = "ready"
    /\ UNCHANGED <<activeDates, cardsAgain, againAt, clock, adapterVars,
                   categoryVars, textVars, navVars>>
    /\ UNCHANGED <<selectedVenue, mapClickCount, mode, markerVenueId,
                   markerFullScreen, listFullScreenVenueId, isDismissed,
                   prevSelectedVenueIdRef, expandedCardOverride,
                   expandedLocalDates, miniCardOverrides, clickedMarker>>
    /\ activeCardIndex' = StartIndex(displayCards', activeDates, clock)
    /\ PanelEffects(TRUE)


\* selectedVenue?.venue_id, 0 for undefined
SelectedVenueId(selected) ==
    IF selected = <<>> THEN 0 ELSE selected[1].venue_id

\* displayCards.find(c => c.venue.id === venueId) finds a card
HasCardOf(shown, venueId) ==
    \E k \in 1..Len(shown) : shown[k].venue.id = venueId

\* mutant: the effect switches on every run, not only on a new venue
MarkerEffectSwitchesOnRerun(prevRef, selectedVenueId, shown) ==
    /\ selectedVenueId # 0
    /\ HasCardOf(shown, NumToString(selectedVenueId))

\* MobileEventList, the effect on [selectedVenueId, displayCards]: it
\* switches the panel to the marker's card when the venue selected is not
\* the one the ref remembers and has a card among those shown
MarkerEffectSwitches(prevRef, selectedVenueId, shown) ==
    /\ selectedVenueId # 0
    /\ prevRef # selectedVenueId
    /\ HasCardOf(shown, NumToString(selectedVenueId))

\* handleDateChange: setFilters({...filters, activeDates: dates}), and the
\* memos that depend on activeDates are computed again.  MobileEventList
\* then runs its effects on activeDates, on displayCards and on
\* [selectedVenueId, displayCards], in this order.
onDateChange(dates) ==
    /\ pc = "ready"
    /\ activeDates' = dates
    /\ cards' = HomeCards(filteredVenues, dates, clock)
    /\ cardsAt' = clock
    /\ displayCards' = DisplayCards(cards', dates, venueDateMap)
    /\ LET selectedVenueId == SelectedVenueId(selectedVenue)
           switches == MarkerEffectSwitches(prevSelectedVenueIdRef,
                                            selectedVenueId, displayCards')
       IN  /\ isDismissed' = FALSE
           /\ mode' = IF switches THEN "marker" ELSE "list"
           /\ markerVenueId' = IF switches THEN NumToString(selectedVenueId)
                                ELSE <<>>
           /\ markerFullScreen' = FALSE
           /\ listFullScreenVenueId' = <<>>
           /\ expandedCardOverride' = <<>>
           /\ expandedLocalDates' = <<>>
           /\ miniCardOverrides' = <<>>
           /\ prevSelectedVenueIdRef' = selectedVenueId
    /\ clickedMarker' = <<>>
    /\ UNCHANGED <<allVenues, filteredVenues, venueDateMap, indexAt, optionDates,
                   dateOptions, eventCountsByDate, cardsAgain, againAt, clock, pc,
                   adapterVars, categoryVars, textVars, selectedVenue,
                   mapClickCount>>
    /\ activeCardIndex' = StartIndex(displayCards', dates, clock)
    /\ PanelEffects(TRUE)

\* A call of handleDateChange that changes the dates selected
handleDateChange(dates) ==
    /\ dates # activeDates
    /\ onDateChange(dates)
    /\ clickedDate' = <<>>
    /\ UNCHANGED <<selectedPreset, presetRangeDates>>

\* Time passes
Tick ==
    /\ pc = "ready"
    /\ \E c \in HomeClocks : c.now > clock.now /\ clock' = c
    /\ UNCHANGED <<pc, homeVars, adapterVars, categoryVars, textVars, navVars, panelVars>>

\* The cards pipeline is called once more on the records and filters in use
Rerender ==
    /\ pc = "ready"
    /\ cardsAgain' = HomeCards(filteredVenues, activeDates, clock)
    /\ againAt' = clock
    /\ pc' = "rerendered"
    /\ UNCHANGED <<allVenues, filteredVenues, activeDates, venueDateMap, indexAt, cards,
                   cardsAt, displayCards, optionDates, dateOptions,
                   eventCountsByDate, clock,
                   adapterVars, categoryVars, textVars, navVars, panelVars>>

NextHome ==
    \/ DataLoaded
    \/ \E dates \in DateSelections : handleDateChange(dates)
    \/ Tick
    \/ Rerender

SpecHome == InitHome /\ [][NextHome]_vars

---------------------------------------------------------------------------
(* Claims on the home page's card list *)

\* What the loose deduplication of `cards` was given
RawCards == transformSupabaseDataToStackedCards(filteredVenues, cardsAt.now)

PositionIn(cs, card) == CHOOSE p \in 1..Len(cs) : cs[p] = card

SameLooseKey(cs, card) == {q \in 1..Len(cs) : LooseKey(cs[q]) = LooseKey(card)}

LooseKeysOf(cs) == {LooseKey(cs[q]) : q \in 1..Len(cs)}

Min(S) == CHOOSE x \in S : \A y \in S : x <= y

\* With no date selected `cards` holds exactly what the loose
\* deduplication kept: one card of `raw` for each key
OneCardPerLooseKey(raw) ==
    /\ \A i \in 1..Len(cards) : cards[i] \in Range(raw)
    /\ \A i, j \in 1..Len(cards) :
          LooseKey(cards[i]) = LooseKey(cards[j]) => i = j
    /\ LooseKeysOf(cards) = LooseKeysOf(raw)

\* Among the cards of `card`'s key, `card` has the least distance to
\* `origin` and is the first of those that have it
ClosestTo(raw, card, origin) ==
    \A q \in SameLooseKey(raw, card) :
        /\ ~NumLess(DistanceTo(raw[q], origin), DistanceTo(card, origin))
        /\ DistanceTo(raw[q], origin) = DistanceTo(card, origin)
              => PositionIn(raw, card) <= q

\* C5 as stated: the card kept for each venue + event-name key is the one
\* whose event date is closest in time to the current moment, the first
\* seen when distances are equal.
C5_ClosestToCurrentMoment ==
    (pc # "loading" /\ activeDates = <<>>) =>
        LET raw == RawCards
        IN  /\ OneCardPerLooseKey(raw)
            /\ \A i \in 1..Len(cards) : ClosestTo(raw, cards[i], cardsAt.now)

\* The card of `raw` at p is the one the amended C5 names for its key
ClosestToMidnight(raw, p, origin) ==
    LET same == SameLooseKey(raw, raw[p])
        first == Min(same)
        dated == {q \in same : ~ParseDate(raw[q].event.event_date).nan}
    IN  IF first \notin dated THEN p = first
        ELSE /\ p \in dated
             /\ \A q \in dated :
                   LET dp == DistanceTo(raw[p], origin).t
                       dq == DistanceTo(raw[q], origin).t
                   IN  dp <= dq /\ (dp = dq => p <= q)

\* C5 amended: the card kept for each key is the one whose event date is
\* closest to the start of the current local day (midnight), among the
\* cards of the key whose date parses, the first seen when distances are
\* equal; when the first-seen card of the key has a date that does not
\* parse, that card is kept.
C5_ClosestToLocalMidnight ==
    (pc # "loading" /\ activeDates = <<>>) =>
        LET raw == RawCards
            origin == LocalMidnight(cardsAt.now, cardsAt.tz)
        IN  /\ OneCardPerLooseKey(raw)
            /\ \A i \in 1..Len(cards) :
                  ClosestToMidnight(raw, PositionIn(raw, cards[i]), origin)

\* C5 witness: a later card of a key has replaced the first-seen one, and
\* the first-seen one is the closer of the two to the current moment
C5_Witness ==
    /\ pc # "loading" /\ activeDates = <<>>
    /\ LET raw == RawCards
       IN  \E i \in 1..Len(cards) :
              LET first == Min(SameLooseKey(raw, cards[i]))
              IN  /\ PositionIn(raw, cards[i]) > first
                  /\ NumLess(DistanceTo(raw[first], cardsAt.now),
                             DistanceTo(cards[i], cardsAt.now))

\* C6 as stated: two calls of the card pipeline with identical records and
\* identical filter state produce identical output.
C6_SameInputsSameOutput ==
    pc = "rerendered" => cardsAgain = cards

\* C6 amended: two calls of the card pipeline with identical records and
\* identical filter state, made on the same calendar day (in local time
\* and in UTC), produce identical output.
C6_SameInputsSameDaySameOutput ==
    (/\ pc = "rerendered"
     /\ LocalDay(cardsAt.now, cardsAt.tz) = LocalDay(againAt.now, againAt.tz)
     /\ TodayIso(cardsAt.now) = TodayIso(againAt.now))
        => cardsAgain = cards

\* C6 witness: the second call is made hours after the first, on the same
\* day, on records of which the loose deduplication drops one
C6_Witness ==
    /\ pc = "rerendered"
    /\ againAt.now > cardsAt.now
    /\ LocalDay(cardsAt.now, cardsAt.tz) = LocalDay(againAt.now, againAt.tz)
    /\ TodayIso(cardsAt.now) = TodayIso(againAt.now)
    /\ Len(cards) > 0
    /\ Len(cards) < Len(RawCards)

\* C7: with no date selected no card is left out because of its date (the
\* displayed list has a card for every venue + event-name key on record);
\* with dates selected, every displayed card's own date key is selected.
C7_DateFacet ==
    pc # "loading" =>
        IF activeDates = <<>>
        THEN /\ displayCards = cards
             /\ LooseKeysOf(displayCards) = LooseKeysOf(RawCards)
        ELSE \A i \in 1..Len(displayCards) :
                 CardDateKey(displayCards[i], clock.tz) \in Range(activeDates)

\* C7 witness: dates are selected, a card is displayed and another key's
\* card is left out
C7_Witness ==
    /\ pc # "loading"
    /\ activeDates # <<>>
    /\ Len(displayCards) > 0
    /\ LooseKeysOf(displayCards) # LooseKeysOf(RawCards)

\* C9: in the per-venue date index every venue's list holds each date key
\* once and is in ascending order of calendar date.
C9_DateIndexSortedUnique ==
    pc # "loading" =>
        \A v \in 1..Len(venueDateMap) :
            LET dates == venueDateMap[v].value
            IN  \A i, j \in 1..Len(dates) :
                    i < j => /\ dates[i].dateKey # dates[j].dateKey
                             /\ ParseDateKey(dates[i].dateKey, indexAt.tz).t
                                  < ParseDateKey(dates[j].dateKey, indexAt.tz).t

\* C9 witness: a venue's records come latest date first and one of its
\* days comes twice
C9_Witness ==
    /\ pc # "loading"
    /\ \E i, j, k \in 1..Len(allVenues) :
          /\ i < j /\ j < k
          /\ allVenues[i].venue_id = allVenues[j].venue_id
          /\ allVenues[j].venue_id = allVenues[k].venue_id
          /\ ~ParseDate(allVenues[i].event_date).nan
          /\ ~ParseDate(allVenues[j].event_date).nan
          /\ ~ParseDate(allVenues[k].event_date).nan
          /\ ParseDate(allVenues[j].event_date).t
                < ParseDate(allVenues[i].event_date).t
          /\ ToDateString(ParseDate(allVenues[k].event_date), indexAt.tz)
                = ToDateString(ParseDate(allVenues[j].event_date), indexAt.tz)
    /\ \E v \in 1..Len(venueDateMap) : Len(venueDateMap[v].value) = 2

\* The lists of dates the page shows: one for each venue, and the pills
DateLists ==
    {venueDateMap[v].value : v \in 1..Len(venueDateMap)} \cup {dateOptions}

MarkedToday(dates) == {i \in 1..Len(dates) : dates[i].isToday}

\* C10 as stated: exactly one entry of a list of dates is marked "is today".
C10_ExactlyOneToday ==
    pc # "loading" =>
        \A v \in 1..Len(venueDateMap) :
            Cardinality(MarkedToday(venueDateMap[v].value)) = 1

\* C10 amended: an entry is marked "is today" exactly when its calendar day
\* is the current local calendar day at build time, so at most one entry
\* of a list is marked, and none when the list has no event today.
C10_TodayMarksCurrentDay ==
    pc # "loading" =>
        \A dates \in DateLists :
            /\ \A i \in 1..Len(dates) :
                  dates[i].isToday <=>
                      dates[i].dateKey
                         = DayNames[LocalDay(indexAt.now, indexAt.tz) + 2]
            /\ Cardinality(MarkedToday(dates)) <= 1

\* C10 witness: a venue has an event today and one on another day, and
\* another venue has none today
C10_Witness ==
    /\ pc # "loading"
    /\ \E v \in 1..Len(venueDateMap) :
          /\ Len(venueDateMap[v].value) > 1
          /\ MarkedToday(venueDateMap[v].value) # {}
    /\ \E v \in 1..Len(venueDateMap) : MarkedToday(venueDateMap[v].value) = {}
    /\ MarkedToday(dateOptions) # {}

---------------------------------------------------------------------------
(* The category pills: clicks change the filter state, the panel renders *)

\* onFiltersChange(updated): the state is replaced and the panel, rendered
\* again, flattens it
onFiltersChange(updated) ==
    /\ filters' = updated
    /\ flatFilters' = convertHierarchicalToFlat(updated)
    /\ UNCHANGED <<pc, clock, adapterVars, homeVars, textVars, navVars, panelVars>>

handlePrimaryClick(category) ==
    LET eventCategories == filters.eventCategories
        currentPrimaries == eventCategories.selectedPrimaries
        currentExpanded == eventCategories.expandedPrimaries
    IN  IF ArrayIncludes(currentPrimaries, category)
        THEN onFiltersChange([filters EXCEPT !.eventCategories =
                 [selectedPrimaries |-> Without(currentPrimaries, category),
                  expandedPrimaries |-> Without(currentExpanded, category),
                  selectedSecondaries |->
                      WithoutKey(eventCategories.selectedSecondaries, category)]])
        ELSE onFiltersChange([filters EXCEPT !.eventCategories =
                 [eventCategories EXCEPT
                     !.selectedPrimaries = Append(currentPrimaries, category),
                     !.expandedPrimaries = Append(currentExpanded, category)]])

\* The secondary pills on screen are those of the expanded primaries
handleSecondaryClick(primary, secondary) ==
    LET eventCategories == filters.eventCategories
        currentSecondaries == GetOrEmpty(eventCategories.selectedSecondaries, primary)
        isCurrentlySelected == ArrayIncludes(currentSecondaries, secondary)
        newSecondaries == IF isCurrentlySelected
                          THEN Without(currentSecondaries, secondary)
                          ELSE Append(currentSecondaries, secondary)
        primaryIsSelected == ArrayIncludes(eventCategories.selectedPrimaries, primary)
        primaryIsExpanded == ArrayIncludes(eventCategories.expandedPrimaries, primary)
    IN  /\ ArrayIncludes(eventCategories.expandedPrimaries, primary)
        /\ ArrayIncludes(GetOrEmpty(SECONDARY_CATEGORIES_MAP, primary), secondary)
        /\ IF Len(newSecondaries) = 0 /\ isCurrentlySelected
           THEN onFiltersChange([filters EXCEPT
                    !.eventCategories.selectedSecondaries =
                        WithoutKey(eventCategories.selectedSecondaries, primary)])
           ELSE onFiltersChange([filters EXCEPT !.eventCategories =
                    [selectedPrimaries |->
                         IF primaryIsSelected
                         THEN eventCategories.selectedPrimaries
                         ELSE Append(eventCategories.selectedPrimaries, primary),
                     expandedPrimaries |->
                         IF primaryIsExpanded
                         THEN eventCategories.expandedPrimaries
                         ELSE Append(eventCategories.expandedPrimaries, primary),
                     selectedSecondaries |->
                         MapSet(eventCategories.selectedSecondaries,
                                primary, newSecondaries)]])

handleQuickFilterClick(filterId) ==
    LET eventCategories == filters.eventCategories
        activeQuickFilters == filters.quickFilters
        isActive == ArrayIncludes(activeQuickFilters, filterId)
        newQuickFilters == IF isActive THEN Without(activeQuickFilters, filterId)
                           ELSE Append(activeQuickFilters, filterId)
        updatedFilters == [filters EXCEPT !.quickFilters = newQuickFilters]
    IN  /\ ArrayIncludes(QUICK_FILTERS, filterId)
        /\ onFiltersChange(
          CASE filterId = "trending" ->
                 [updatedFilters EXCEPT
                     !.selectedRatings = IF isActive THEN <<>> ELSE <<4>>]
            [] filterId = "free" ->
                 [updatedFilters EXCEPT
                     !.selectedTicketPrices = IF isActive THEN <<>> ELSE <<"Free">>]
            [] filterId = "live-music" ->
                 IF ~isActive
                 THEN [updatedFilters EXCEPT !.eventCategories.selectedPrimaries =
                          IF ArrayIncludes(eventCategories.selectedPrimaries, MusicEvents)
                          THEN eventCategories.selectedPrimaries
                          ELSE Append(eventCategories.selectedPrimaries, MusicEvents)]
                 ELSE [updatedFilters EXCEPT
                          !.eventCategories.selectedPrimaries =
                              Without(eventCategories.selectedPrimaries, MusicEvents),
                          !.eventCategories.expandedPrimaries =
                              Without(eventCategories.expandedPrimaries, MusicEvents)]
            [] filterId = "rooftop" ->
                 [updatedFilters EXCEPT
                     !.attributes.venue = IF isActive THEN <<>> ELSE <<"Rooftop">>]
            [] OTHER -> updatedFilters)

InitCategory ==
    /\ pc = "pills"
    /\ clock \in {c \in Clocks : c.now = 54}
    /\ CategoryIdle
    /\ AdapterIdle
    /\ HomeIdle
    /\ TextIdle
    /\ PanelIdle
    /\ TopNavIdle

NextCategory ==
    \/ \E category \in Range(PRIMARY_CATEGORIES) : handlePrimaryClick(category)
    \/ \E primary \in Range(PRIMARY_CATEGORIES) :
          \E secondary \in Range(GetOrEmpty(SECONDARY_CATEGORIES_MAP, primary)) :
              handleSecondaryClick(primary, secondary)
    \/ \E filterId \in Range(QUICK_FILTERS) : handleQuickFilterClick(filterId)

SpecCategory == InitCategory /\ [][NextCategory]_vars

---------------------------------------------------------------------------
(* Claim on the category facet *)

GlowClub == [Glow EXCEPT !.event_categories =
                <<[primary |-> Nightlife, secondary |-> Nightclub]>>]
GalaElectronic == [Gala EXCEPT !.event_categories =
                      <<[primary |-> MusicEvents, secondary |-> Electronic]>>]

\* A record on a rooftop, one in a nightclub, a concert and an untagged one
CategoryRecords == {GlowJun3, GlowClub, GalaElectronic, Gala}

\* The pairs the selection stands for: (primary) for a selected primary
\* without selected secondaries, (primary, secondary) for each selected
\* secondary of a selected primary
SelectedPairs(ec) ==
    UNION {LET secondaries == GetOrEmpty(ec.selectedSecondaries, primary)
           IN  IF Len(secondaries) = 0
               THEN {[primary |-> primary, secondary |-> <<>>]}
               ELSE {[primary |-> primary, secondary |-> secondary] :
                        secondary \in Range(secondaries)}
           : primary \in Range(ec.selectedPrimaries)}

\* A record passes a flattened filter when the filter is empty or one of
\* its tags agrees with one of the pairs
PassesFlat(venue, pairs) ==
    \/ Len(pairs) = 0
    \/ \E t \in 1..Len(venue.event_categories) : \E e \in 1..Len(pairs) :
          /\ venue.event_categories[t].primary = pairs[e].primary
          /\ \/ pairs[e].secondary = <<>>
             \/ venue.event_categories[t].secondary = pairs[e].secondary

\* C8: the flattened filter carries, each once, exactly the (primary) and
\* (primary, secondary) pairs of the selection, and a record passes it iff
\* it passes the category facet: no primary selected, or a tag whose
\* primary is selected and whose secondary is among the primary's selected
\* secondaries when there are any. A record tagged (Nightlife, Rooftop
\* Venue) passes Nightlife alone and Nightlife + Rooftop Venue, but not
\* Nightlife + Nightclub only.
C8_CategoryFacet ==
    LET ec == filters.eventCategories
        pairs == flatFilters.eventCategories
        ofNightlife == GetOrEmpty(ec.selectedSecondaries, Nightlife)
    IN  /\ Range(pairs) = SelectedPairs(ec)
        /\ \A i, j \in 1..Len(pairs) : pairs[i] = pairs[j] => i = j
        /\ \A venue \in CategoryRecords :
              PassesFlat(venue, pairs) <=> MatchesCategory(venue, ec)
        /\ ArrayIncludes(ec.selectedPrimaries, Nightlife) /\ ofNightlife = <<>>
              => PassesFlat(GlowJun3, pairs)
        /\ ArrayIncludes(ec.selectedPrimaries, Nightlife)
              /\ ArrayIncludes(ofNightlife, RooftopVenue)
              => PassesFlat(GlowJun3, pairs)
        /\ ec.selectedPrimaries = <<Nightlife>> /\ ofNightlife = <<Nightclub>>
              => ~PassesFlat(GlowJun3, pairs)

\* C8 witness: Nightlife is selected with Nightclub alone, so the rooftop
\* record does not pass
C8_Witness ==
    /\ pc = "pills"
    /\ filters.eventCategories.selectedPrimaries = <<Nightlife>>
    /\ GetOrEmpty(filters.eventCategories.selectedSecondaries, Nightlife)
          = <<Nightclub>>
    /\ flatFilters.eventCategories
          = <<[primary |-> Nightlife, secondary |-> Nightclub]>>
    /\ ~PassesFlat(GlowJun3, flatFilters.eventCategories)
    /\ PassesFlat(GlowClub, flatFilters.eventCategories)

---------------------------------------------------------------------------
(* Claims on the records the date index leaves out *)

\* The record has an event date and it parses
HasParsedDate(venue) ==
    Truthy(venue.event_date) /\ ~ParseDate(venue.event_date).nan

\* The date key of a record whose date parses
RecordDateKey(venue, tz) == ToDateString(ParseDate(venue.event_date), tz)

\* C11: a record whose event date does not parse adds nothing to the date
\* index: every DateOption of a venue is the day of a record of that venue
\* whose date parses, and the count kept for a date key is the number of
\* records with a parsed date of that key (so no key without such a record).
C11_UnparseableDateSkipped ==
    pc # "loading" =>
        /\ \A v \in 1..Len(venueDateMap) :
              \A o \in 1..Len(venueDateMap[v].value) :
                  \E i \in 1..Len(allVenues) :
                      /\ VenueIdString(allVenues[i]) = venueDateMap[v].key
                      /\ HasParsedDate(allVenues[i])
                      /\ RecordDateKey(allVenues[i], indexAt.tz)
                            = venueDateMap[v].value[o].dateKey
        /\ \A e \in 1..Len(eventCountsByDate) :
              eventCountsByDate[e].value =
                  Cardinality({i \in 1..Len(filteredVenues) :
                      /\ HasParsedDate(filteredVenues[i])
                      /\ RecordDateKey(filteredVenues[i], indexAt.tz)
                            = eventCountsByDate[e].key})

\* C12: every key of the per-venue date map has a non-empty list, and a
\* venue none of whose records has a date that parses has no key.
C12_NoVenueWithoutDates ==
    pc # "loading" =>
        /\ \A v \in 1..Len(venueDateMap) : Len(venueDateMap[v].value) > 0
        /\ \A i \in 1..Len(allVenues) :
              (\A j \in 1..Len(allVenues) :
                   allVenues[j].venue_id = allVenues[i].venue_id
                      => ~HasParsedDate(allVenues[j]))
                 => ~MapHas(venueDateMap, VenueIdString(allVenues[i]))

\* C12 witness: a venue's only record has a date that does not parse, and
\* another venue is in the map
C12_Witness ==
    /\ pc # "loading"
    /\ venueDateMap # <<>>
    /\ \E i \in 1..Len(allVenues) :
          /\ allVenues[i].venue_id # 0
          /\ Truthy(allVenues[i].event_date)
          /\ \A j \in 1..Len(allVenues) :
                allVenues[j].venue_id = allVenues[i].venue_id
                   => ~HasParsedDate(allVenues[j])

\* The record passes the date selection in force: no date is selected, or
\* its own date key is
PassesActiveDates(venue, tz) ==
    \/ activeDates = <<>>
    \/ HasParsedDate(venue) /\ RecordDateKey(venue, tz) \in Range(activeDates)

\* C13: a record without a venue id or without a date that parses is not
\* in the date index, and a card of it (of its venue and event name) is in
\* the list shown whenever the record passes the filters in force.
C13_LeftOutButListed ==
    pc # "loading" =>
        /\ ~MapHas(venueDateMap, <<>>)
        /\ \A i \in 1..Len(filteredVenues) :
              LET venue == filteredVenues[i]
              IN  (venue.venue_id = 0 \/ ~HasParsedDate(venue))
                     /\ PassesActiveDates(venue, clock.tz)
                  => \E k \in 1..Len(displayCards) :
                        LooseKey(displayCards[k])
                           = LooseKey(ToCard(venue, i - 1, cardsAt.now))

---------------------------------------------------------------------------
(* JavaScript values.  A value is [type, str, items]: `str` is what         *)
(* String(value) gives for a primitive, `items` holds the elements of an   *)
(* array and the keys of an object.                                        *)

Str(s) == [type |-> "string", str |-> s, items |-> <<>>]
Num(digits) == [type |-> "number", str |-> digits, items |-> <<>>]
Bool(text) == [type |-> "boolean", str |-> text, items |-> <<>>]
Null == [type |-> "null", str |-> <<"n","u","l","l">>, items |-> <<>>]
Undefined == [type |-> "undefined", str |-> <<"u","n","d","e","f","i","n","e","d">>, items |-> <<>>]
Arr(items) == [type |-> "array", str |-> <<>>, items |-> items]
Obj(keys) == [type |-> "object", str |-> <<"[","o","b","j","e","c","t"," ","O","b","j","e","c","t","]">>, items |-> keys]

TrueText == <<"t","r","u","e">>
FalseText == <<"f","a","l","s","e">>

\* !value
Falsy(value) ==
    \/ value.type \in {"null", "undefined"}
    \/ value.type = "string" /\ value.str = <<>>
    \/ value.type = "number" /\ value.str = <<"0">>
    \/ value.type = "boolean" /\ value.str = FalseText

\* String.prototype.split(',')
RECURSIVE SplitComma(_, _, _)
SplitComma(s, i, cur) ==
    IF i > Len(s) THEN <<cur>>
    ELSE IF s[i] = "," THEN <<cur>> \o SplitComma(s, i + 1, <<>>)
    ELSE SplitComma(s, i + 1, Append(cur, s[i]))

\* The elements of a JSON array text: it is split at the commas that are
\* not inside a string literal
RECURSIVE SplitElements(_, _, _, _)
SplitElements(s, i, inString, cur) ==
    IF i > Len(s) THEN <<cur>>
    ELSE IF s[i] = "," /\ ~inString
         THEN <<cur>> \o SplitElements(s, i + 1, FALSE, <<>>)
    ELSE SplitElements(s, i + 1,
                       IF s[i] = "\"" THEN ~inString ELSE inString,
                       Append(cur, s[i]))

\* A JSON string without escapes, a JSON number, or true / false / null
IsJsonScalar(t) ==
    \/ /\ Len(t) >= 2 /\ t[1] = "\"" /\ t[Len(t)] = "\""
       /\ \A i \in 2..(Len(t) - 1) : t[i] \notin {"\"", "\\"}
    \/ /\ Len(t) >= 1
       /\ \A i \in 1..Len(t) : IsDigit(t[i])
       /\ Len(t) > 1 => t[1] # "0"
    \/ t \in {TrueText, FalseText, Null.str}

JsonScalar(t) ==
    IF t[1] = "\"" THEN Str(SubSeq(t, 2, Len(t) - 1))
    ELSE IF IsDigit(t[1]) THEN Num(t)
    ELSE IF t = Null.str THEN Null
    ELSE Bool(t)

\* JSON.parse for the texts the list fields carry: a scalar, or an array
\* of scalars.  `ok` is false where JSON.parse throws.
JsonParse(text) ==
    LET t == Trim(text)
    IN  IF IsJsonScalar(t) THEN [ok |-> TRUE, value |-> JsonScalar(t)]
        ELSE IF Len(t) >= 2 /\ t[1] = "[" /\ t[Len(t)] = "]"
        THEN LET inner == SubSeq(t, 2, Len(t) - 1)
                 parts == SplitElements(inner, 1, FALSE, <<>>)
             IN  IF Trim(inner) = <<>>
                 THEN [ok |-> TRUE, value |-> Arr(<<>>)]
                 ELSE IF \A k \in 1..Len(parts) : IsJsonScalar(Trim(parts[k]))
                 THEN [ok |-> TRUE,
                       value |-> Arr([k \in 1..Len(parts) |->
                                         JsonScalar(Trim(parts[k]))])]
                 ELSE [ok |-> FALSE, value |-> Undefined]
        ELSE [ok |-> FALSE, value |-> Undefined]

\* Array.prototype.filter(Boolean) on strings
RECURSIVE FilterTruthy(_)
FilterTruthy(strs) ==
    IF strs = <<>> THEN <<>>
    ELSE IF Truthy(Head(strs)) THEN <<Head(strs)>> \o FilterTruthy(Tail(strs))
    ELSE FilterTruthy(Tail(strs))

---------------------------------------------------------------------------
(* components/mobile/MobileEventCard, MobileEventList: parseToArray *)

\* Object.keys(item)[0] || '' is the first key of an object, "0" for an
\* array that has an element
extractItems(arr) ==
    FilterTruthy([k \in 1..Len(arr) |->
        IF arr[k].type = "string" THEN arr[k].str
        ELSE IF arr[k].type \in {"object", "array"}
        THEN (IF arr[k].items = <<>> THEN <<>>
              ELSE IF arr[k].type = "array" THEN <<"0">>
              ELSE arr[k].items[1].str)
        ELSE arr[k].str])

Comma == <<",">>

\* mutant: the pieces between commas are not trimmed
parseToArrayNoTrim(value) ==
    IF Falsy(value) THEN <<>>
    ELSE IF value.type = "array" THEN extractItems(value.items)
    ELSE IF value.type = "string"
    THEN LET parsed == JsonParse(value.str)
         IN  IF parsed.ok /\ parsed.value.type = "array"
             THEN extractItems(parsed.value.items)
             ELSE IF Includes(value.str, Comma)
             THEN FilterTruthy(SplitComma(value.str, 1, <<>>))
             ELSE <<value.str>>
    ELSE <<value.str>>

parseToArray(value) ==
    IF Falsy(value) THEN <<>>
    ELSE IF value.type = "array" THEN extractItems(value.items)
    ELSE IF value.type = "string"
    THEN LET parsed == JsonParse(value.str)
             parts == SplitComma(value.str, 1, <<>>)
         IN  IF parsed.ok /\ parsed.value.type = "array"
             THEN extractItems(parsed.value.items)
             ELSE IF Includes(value.str, Comma)
             THEN FilterTruthy([k \in 1..Len(parts) |-> Trim(parts[k])])
             ELSE <<value.str>>
    ELSE <<value.str>>

---------------------------------------------------------------------------
(* The card views' date formatters *)

MonthNames == <<<<"J","a","n">>,
              <<"F","e","b">>,
              <<"M","a","r">>,
              <<"A","p","r">>,
              <<"M","a","y">>,
              <<"J","u","n">>,
              <<"J","u","l">>,
              <<"A","u","g">>,
              <<"S","e","p">>,
              <<"O","c","t">>,
              <<"N","o","v">>,
              <<"D","e","c">>>>

LongWeekdays == <<<<"S","u","n","d","a","y">>,
                <<"M","o","n","d","a","y">>,
                <<"T","u","e","s","d","a","y">>,
                <<"W","e","d","n","e","s","d","a","y">>,
                <<"T","h","u","r","s","d","a","y">>,
                <<"F","r","i","d","a","y">>,
                <<"S","a","t","u","r","d","a","y">>>>

Year2025 == <<"2","0","2","5">>

\* Date.prototype.getDate / getMonth of the local day `day` (days since
\* 2025-05-31, a Saturday), from May to July 2025
GetDate(day) ==
    IF day <= 0 THEN 31 + day ELSE IF day <= 30 THEN day ELSE day - 30
GetMonth(day) == IF day <= 0 THEN 4 ELSE IF day <= 30 THEN 5 ELSE 6

\* toLocaleDateString('en-US', {weekday: 'long', month: 'short',
\*                              day: 'numeric', year: 'numeric'})
LongDate(day) ==
    LongWeekdays[((day + 6) % 7) + 1] \o <<",", " ">>
        \o MonthNames[GetMonth(day) + 1] \o <<" ">>
        \o NumToString(GetDate(day)) \o <<",", " ">> \o Year2025

\* MobileEventCard.tsx and the expanded card of MobileEventList.tsx
formatDisplayDate(dateStr, tz) ==
    LET d == ParseDate(dateStr)
    IN  IF d.nan THEN dateStr ELSE LongDate(LocalDay(d.t, tz))

\* StackedEventCards.tsx.  Of an Invalid Date getDate() and getFullYear()
\* are NaN and months[NaN] is undefined.
formatDate(dateString, tz) ==
    LET date == ParseDate(dateString)
        day == IF date.nan THEN <<"N","a","N">>
               ELSE NumToString(GetDate(LocalDay(date.t, tz)))
        month == IF date.nan THEN Undefined.str
                 ELSE MonthNames[GetMonth(LocalDay(date.t, tz)) + 1]
        fullYear == IF date.nan THEN <<"N","a","N">> ELSE Year2025
        year == SubSeq(fullYear, Len(fullYear) - 1, Len(fullYear))
    IN  day \o <<" ">> \o month \o <<" ">> \o year

\* parseEventTime called with a value of any type: a value that is not a
\* string gives the empty pair
parseEventTimeOf(value) ==
    IF value.type # "string" THEN [startTime |-> <<>>, endTime |-> <<>>]
    ELSE parseEventTime(value.str)

---------------------------------------------------------------------------
(* The text functions of a card, each called on one argument *)

Dj == <<"D","J">>
DjPadded == <<" ","D","J"," ">>
GlowTruncated == <<"G","l","o","w",".",".",".">>
HalfLetters == <<"A","1","B","2">>
OneLetter == <<"A","1","2","3">>

\* What a record carries as event name, artist and venue name
TitleStrings == {<<>>, Dj, DjPadded, ClubAlpha, GlowPartyLoose, GlowTruncated,
                 Year2025, HalfLetters, OneLetter}

TbaLate == <<"T","B","A"," ","-"," ","l","a","t","e">>
T9pmPadded == <<" ","9",":","0","0"," ","P","M"," ">>
NinePm == <<"9","p","m">>
DoorsAt9 == <<"D","o","o","r","s"," ","-"," ","9",":","0","0"," ","P","M">>
T9pmOpen == <<"9",":","0","0"," ","P","M"," ","-"," ">>

\* What event_time holds: nothing, a number, a time, a range, free text
TimeValues == {Null, Undefined, Num(<<"8","3","0">>), Str(<<>>), Str(T9pm), Str(T10pm),
               Str(T8to2), Str(T9to2), Str(Tba), Str(TbaLate), Str(T9pmPadded),
               Str(NinePm), Str(DoorsAt9), Str(T9pmOpen)}

Rooftop == <<"R","o","o","f","t","o","p">>
LiveDj == <<"L","i","v","e"," ","D","J">>
Over21 == <<"2","1","+">>
Pool == <<"P","o","o","l">>

Labels == {Rooftop, LiveDj, Over21}

\* The lists of labels a list field stands for
ItemLists == UNION {[1..k -> Labels] : k \in 1..MaxItems}

\* JSON.stringify of an array of strings, and the comma-separated form
JsonOf(items) ==
    <<"[">> \o JoinWith([k \in 1..Len(items) |->
                            <<"\"">> \o items[k] \o <<"\"">>], Comma)
            \o <<"]">>
CommaOf(items) == JoinWith(items, <<",", " ">>)

\* What a list field holds: nothing, a scalar, an array, a JSON text, a
\* comma-separated text, free text
ListValues ==
    {Null, Undefined, Str(<<>>), Num(<<"0">>), Num(<<"7">>), Bool(FalseText),
     Bool(TrueText),
     Arr(<<>>), Arr(<<Str(Rooftop), Str(LiveDj)>>),
     Arr(<<Str(Rooftop), Str(<<>>), Num(<<"7">>)>>),
     Arr(<<Obj(<<Str(Pool)>>), Obj(<<>>), Null>>),
     Str(<<"[","\"","R","o","o","f","t","o","p","\"",","," ","\"","L","i","v","e"," ","D","J","\"","]">>), Str(<<"[","7",",","\"","P","o","o","l","\"",",","t","r","u","e","]">>), Str(<<"[","]">>),
     Str(<<"[","\"","R","o","o","f","t","o","p","\"">>), Str(<<"[","R","o","o","f","t","o","p","]">>), Str(<<"4","2">>), Str(<<"t","r","u","e">>),
     Str(<<"\"","R","o","o","f","t","o","p","\"">>),
     Str(<<"R","o","o","f","t","o","p",",",",","L","i","v","e"," ","D","J">>), Str(<<" ","R","o","o","f","t","o","p"," ",","," ","L","i","v","e"," ","D","J"," ">>), Str(<<",">>),
     Str(<<" ">>)}
        \cup {Str(JsonOf(items)) : items \in ItemLists}
        \cup {Str(CommaOf(items)) : items \in ItemLists}

Month13 == <<"2","0","2","5","-","1","3","-","4","5">>
Soon == <<"s","o","o","n">>

\* What event_date holds on a card
DateStrings == {<<>>, D0601, D0602, D0603, D0601Late, IsoMay31, Tba, Month13,
                Soon}

InitText ==
    /\ pc = "call"
    /\ clock \in {c \in Clocks : c.now = 54}
    /\ \/ textArg \in {[fn |-> "selectBestTitle", args |-> <<e, a, v>>] :
                          e \in TitleStrings, a \in TitleStrings,
                          v \in TitleStrings}
       \/ textArg \in {[fn |-> "parseEventTime", args |-> <<v>>] :
                          v \in TimeValues}
       \/ textArg \in {[fn |-> "parseToArray", args |-> <<v>>] :
                          v \in ListValues}
       \/ textArg \in {[fn |-> view, args |-> <<d>>] :
                          view \in {"MobileEventCard", "MobileEventList",
                                    "StackedEventCards"},
                          d \in DateStrings}
    /\ textResult = <<>>
    /\ AdapterIdle
    /\ HomeIdle
    /\ CategoryIdle
    /\ PanelIdle
    /\ TopNavIdle

Returns(fn, result) ==
    /\ pc = "call"
    /\ textArg.fn = fn
    /\ textResult' = result
    /\ pc' = "returned"
    /\ UNCHANGED <<textArg, clock, adapterVars, homeVars, categoryVars,
                   panelVars, navVars>>

CallSelectBestTitle ==
    /\ textArg.fn = "selectBestTitle"
    /\ Returns("selectBestTitle",
               selectBestTitle(textArg.args[1], textArg.args[2],
                               textArg.args[3]))

CallParseEventTime ==
    /\ textArg.fn = "parseEventTime"
    /\ Returns("parseEventTime", parseEventTimeOf(textArg.args[1]))

CallParseToArray ==
    /\ textArg.fn = "parseToArray"
    /\ Returns("parseToArray", parseToArray(textArg.args[1]))

\* MobileEventCard and the expanded card of MobileEventList:
\* {formatDisplayDate(event.event_date) || 'TBA'}
ShowsDisplayDate ==
    /\ textArg.fn \in {"MobileEventCard", "MobileEventList"}
    /\ Returns(textArg.fn,
               OrElse(formatDisplayDate(textArg.args[1], clock.tz), Tba))

\* StackedEventCards: const dateDisplay = formatDate(event.event_date)
StackedEventCardsShowsDate ==
    /\ textArg.fn = "StackedEventCards"
    /\ Returns("StackedEventCards", formatDate(textArg.args[1], clock.tz))

NextText ==
    \/ CallSelectBestTitle
    \/ CallParseEventTime
    \/ CallParseToArray
    \/ ShowsDisplayDate
    \/ StackedEventCardsShowsDate

SpecText == InitText /\ [][NextText]_vars

---------------------------------------------------------------------------
(* Claims on the text functions of a card *)

Returned(fn) == pc = "returned" /\ textArg.fn = fn

\* A string that can stand as a title: four characters or more, no
\* trailing "...", and letters for at least half of its characters
ValidAsTitle(s) ==
    /\ Len(s) >= 4
    /\ ~(Len(s) >= 3 /\ SubSeq(s, Len(s) - 2, Len(s)) = <<".",".",".">>)
    /\ 2 * Cardinality({i \in 1..Len(s) : IsLetter(s[i])}) >= Len(s)

\* The first of the candidates that can stand as a title, "Event" if none
FirstValidOf(candidates) ==
    LET valid == {k \in 1..Len(candidates) : ValidAsTitle(candidates[k])}
    IN  IF valid = {} THEN <<"E","v","e","n","t">>
        ELSE candidates[CHOOSE k \in valid : \A j \in valid : k <= j]

\* C14: the title is the first of event name, artist and venue name, as
\* they are given, that is valid (length at least 4, no trailing ellipsis,
\* at least half letters), and "Event" when none is.
C14_FirstValidCandidate ==
    Returned("selectBestTitle") => textResult = FirstValidOf(textArg.args)

\* C14, amended: the title is the first of event name, artist and venue
\* name that is valid once the white space around it is trimmed, returned
\* trimmed, and "Event" when none is.
C14_FirstValidTrimmedCandidate ==
    Returned("selectBestTitle") =>
        textResult = FirstValidOf([k \in 1..3 |-> Trim(textArg.args[k])])

\* C14 witness: the event name is too short once trimmed, the artist is
\* valid and padded, and the title is the artist, trimmed
C14_Witness ==
    /\ Returned("selectBestTitle")
    /\ textArg.args = <<DjPadded, GlowPartyLoose, ClubAlpha>>
    /\ textResult = Trim(GlowPartyLoose)
    /\ textResult # GlowPartyLoose

\* A time "H:MM AM" / "HH:MM PM", and a range of two of them
IsTimeText(s) == MatchesSingleTime(Trim(s))
IsTimeRangeText(s) ==
    \E i \in 1..Len(s) :
        /\ i + 2 <= Len(s)
        /\ SubSeq(s, i, i + 2) = <<" ", "-", " ">>
        /\ IsTimeText(SubSeq(s, 1, i - 1))
        /\ IsTimeText(SubSeq(s, i + 3, Len(s)))

\* C15: parseEventTime returns for every input, and an input that is not
\* a time or a range of times gives an empty start and an empty end.
C15_InvalidTimeYieldsEmpty ==
    Returned("parseEventTime") =>
        LET value == textArg.args[1]
        IN  (value.type # "string"
                \/ ~(IsTimeText(value.str) \/ IsTimeRangeText(value.str)))
            => textResult = [startTime |-> <<>>, endTime |-> <<>>]

\* The pieces of a text between its commas, trimmed, the empty ones left out
RECURSIVE PiecesFrom(_, _, _)
PiecesFrom(s, i, cur) ==
    LET rest == IF i > Len(s) THEN <<>>
                ELSE IF s[i] = "," THEN PiecesFrom(s, i + 1, <<>>)
                ELSE PiecesFrom(s, i + 1, Append(cur, s[i]))
    IN  IF (i > Len(s) \/ s[i] = ",")
        THEN (IF Trim(cur) = <<>> THEN rest ELSE <<Trim(cur)>> \o rest)
        ELSE rest

\* C16: a list of labels gives the same sequence, the list itself, whether
\* it arrives as a JSON array or comma-separated; a string that is not
\* JSON gives its pieces between commas when it has a comma and itself as
\* the only element when it has none; a falsy value gives the empty
\* sequence.
C16_SameItemsEitherEncoding ==
    Returned("parseToArray") =>
        LET value == textArg.args[1]
        IN  /\ Falsy(value) => textResult = <<>>
            /\ \A items \in ItemLists :
                  value \in {Str(JsonOf(items)), Str(CommaOf(items))}
                     => /\ textResult = items
                        /\ parseToArray(Str(JsonOf(items))) = textResult
                        /\ parseToArray(Str(CommaOf(items))) = textResult
            /\ (value.type = "string" /\ ~Falsy(value)
                   /\ ~JsonParse(value.str).ok)
                  => textResult =
                        IF \E i \in 1..Len(value.str) : value.str[i] = ","
                        THEN PiecesFrom(value.str, 1, <<>>)
                        ELSE <<value.str>>

\* C16 witness: the comma-separated form of two labels gave the two labels
C16_Witness ==
    /\ Returned("parseToArray")
    /\ textArg.args[1] = Str(<<"R","o","o","f","t","o","p",","," ","L","i","v","e"," ","D","J">>)
    /\ textResult = <<Rooftop, LiveDj>>
    /\ parseToArray(Str(<<"[","\"","R","o","o","f","t","o","p","\"",",","\"","L","i","v","e"," ","D","J","\"","]">>)) = textResult

DateViews == {"MobileEventCard", "MobileEventList", "StackedEventCards"}

\* C17: every card view shows a date string that does not parse as it is.
C17_MalformedDateShownRaw ==
    \A view \in DateViews :
        (Returned(view) /\ textArg.args[1] # <<>>
            /\ ParseDate(textArg.args[1]).nan)
           => textResult = textArg.args[1]

---------------------------------------------------------------------------
(* Claims on the category pills *)

\* C18: after any clicks on primaries, secondaries and quick filters from
\* the empty category state, a primary with a selected secondary is in
\* selectedPrimaries.
C18_SecondaryImpliesPrimary ==
    \A e \in 1..Len(filters.eventCategories.selectedSecondaries) :
        LET entry == filters.eventCategories.selectedSecondaries[e]
        IN  entry.value # <<>>
               => ArrayIncludes(filters.eventCategories.selectedPrimaries,
                                entry.key)

---------------------------------------------------------------------------
(* The mobile panel: Home in map view with MobileEventList mounted *)

\* The records the page has loaded when the panel is used
PanelVenueLists == {<<Glow, Gala>>, <<Glow, GlowJun3, Gala>>,
                    <<GlowTba, Gala>>, <<Glow, GalaNoVenue>>}

RECURSIVE FirstOfEachId(_, _)
FirstOfEachId(cs, i) ==
    IF i > Len(cs) THEN <<>>
    ELSE (IF Truthy(cs[i].event.id)
             /\ ~\E j \in 1..(i - 1) : cs[j].event.id = cs[i].event.id
          THEN <<cs[i]>> ELSE <<>>)
         \o FirstOfEachId(cs, i + 1)

\* Home: useMemo allCards
AllCardsMemo(vs, now) ==
    FirstOfEachId(transformSupabaseDataToStackedCards(vs, now), 1)

\* mutant: the first card of the venue, whatever its day
FindCardOnAnyDate(all, venueId, dateKey, tz) ==
    LET hits == {k \in 1..Len(all) : all[k].venue.id = venueId}
    IN  IF hits = {} THEN <<>>
        ELSE <<all[CHOOSE k \in hits : \A j \in hits : k <= j]>>
\* allCards.find: the first card of the venue on the day `dateKey`,
\* <<>> when there is none
FindCardOn(all, venueId, dateKey, tz) ==
    LET hits == {k \in 1..Len(all) :
                    /\ all[k].venue.id = venueId
                    /\ CardDateKey(all[k], tz) = dateKey}
    IN  IF hits = {} THEN <<>>
        ELSE <<all[CHOOSE k \in hits : \A j \in hits : k <= j]>>

\* The page with its data loaded, no date selected, and the panel mounted:
\* its effects have run once, the first of them has scrolled to today's
\* first card and the timer that slides the panel in is pending
InitPanel ==
    /\ pc = "ready"
    /\ clock \in {c \in Clocks : c.now = 54}
    /\ allVenues \in PanelVenueLists
    /\ filteredVenues = allVenues
    /\ activeDates = <<>>
    /\ optionDates = [i \in 1..Len(allVenues) |-> allVenues[i].event_date]
    /\ venueDateMap = VenueDateMap(allVenues, clock)
    /\ indexAt = clock
    /\ cards = HomeCards(filteredVenues, activeDates, clock)
    /\ cardsAt = clock
    /\ displayCards = DisplayCards(cards, activeDates, venueDateMap)
    /\ dateOptions = DateOptions(optionDates, clock)
    /\ eventCountsByDate = EventCountsByDate(filteredVenues, clock)
    /\ cardsAgain = <<>> /\ againAt = clock
    /\ AdapterIdle
    /\ CategoryIdle
    /\ TextIdle
    /\ selectedVenue = <<>> /\ mapClickCount = 0
    /\ mode = "list" /\ markerVenueId = <<>>
    /\ markerFullScreen = FALSE /\ listFullScreenVenueId = <<>>
    /\ isDismissed = FALSE /\ prevSelectedVenueIdRef = 0
    /\ expandedCardOverride = <<>> /\ expandedLocalDates = <<>>
    /\ miniCardOverrides = <<>>
    /\ clickedMarker = <<>>
    /\ activeCardIndex = StartIndex(displayCards, activeDates, clock)
    /\ highlightedVenueId = VenueIdAt(displayCards, activeCardIndex)
    /\ isVisible = FALSE /\ showTimer = (displayCards # <<>>)
    /\ TopNavIdle

\* The marker card and the carousel of the list are rendered and in view
MarkerCardShown ==
    /\ mode = "marker" /\ markerVenueId # <<>>
    /\ HasCardOf(displayCards, markerVenueId)
CarouselShown ==
    /\ mode = "list" /\ displayCards # <<>>
    /\ listFullScreenVenueId = <<>> /\ ~isDismissed

\* listFullScreenCard: the override of that venue, else its card shown
ListFullScreenShown ==
    /\ mode = "list" /\ listFullScreenVenueId # <<>>
    /\ \/ /\ expandedCardOverride # <<>>
          /\ expandedCardOverride[1].venue.id = listFullScreenVenueId
       \/ HasCardOf(displayCards, listFullScreenVenueId)

\* A marker is clicked: Home's handleVenueSelect, then MobileEventList's
\* effect on [selectedVenueId, displayCards] if selectedVenueId changed
handleVenueSelect(venue) ==
    /\ pc = "ready"
    /\ selectedVenue' = <<venue>>
    /\ clickedMarker' = <<venue>>
    /\ clickedDate' = <<>>
    /\ LET selectedVenueId == venue.venue_id
           runs == selectedVenueId # SelectedVenueId(selectedVenue)
           switches == runs /\ MarkerEffectSwitches(prevSelectedVenueIdRef,
                                                    selectedVenueId,
                                                    displayCards)
       IN  /\ prevSelectedVenueIdRef' =
                 IF runs THEN selectedVenueId ELSE prevSelectedVenueIdRef
           /\ mode' = IF switches THEN "marker" ELSE mode
           /\ markerVenueId' = IF switches THEN NumToString(selectedVenueId)
                                ELSE markerVenueId
           /\ markerFullScreen' = IF switches THEN FALSE ELSE markerFullScreen
           /\ isDismissed' = IF switches THEN FALSE ELSE isDismissed
    /\ UNCHANGED <<mapClickCount, listFullScreenVenueId, expandedCardOverride,
                   expandedLocalDates, miniCardOverrides>>
    /\ UNCHANGED <<pc, clock, adapterVars, homeVars, categoryVars, textVars,
                   selectedPreset, presetRangeDates, activeCardIndex>>
    /\ PanelEffects(FALSE)

\* The map is clicked off a marker: setMapClickCount(c => c + 1), then
\* MobileEventList's effect on dismissSignal
onMapClick ==
    /\ pc = "ready"
    /\ mapClickCount < MaxMapClicks
    /\ mapClickCount' = mapClickCount + 1
    /\ IF mapClickCount' > 0
       THEN /\ isDismissed' = TRUE
            /\ markerFullScreen' = FALSE
            /\ listFullScreenVenueId' = <<>>
            /\ markerVenueId' = <<>>
       ELSE UNCHANGED <<isDismissed, markerFullScreen, listFullScreenVenueId,
                        markerVenueId>>
    /\ clickedMarker' = <<>>
    /\ clickedDate' = <<>>
    /\ UNCHANGED <<selectedVenue, mode, prevSelectedVenueIdRef,
                   expandedCardOverride, expandedLocalDates, miniCardOverrides>>
    /\ UNCHANGED <<pc, clock, adapterVars, homeVars, categoryVars, textVars,
                   selectedPreset, presetRangeDates, activeCardIndex>>
    /\ PanelEffects(FALSE)

handleMarkerClose ==
    /\ pc = "ready"
    /\ MarkerCardShown
    /\ markerVenueId' = <<>>
    /\ markerFullScreen' = FALSE
    /\ isDismissed' = TRUE
    /\ clickedMarker' = <<>>
    /\ clickedDate' = <<>>
    /\ UNCHANGED <<selectedVenue, mapClickCount, mode, listFullScreenVenueId,
                   prevSelectedVenueIdRef, expandedCardOverride,
                   expandedLocalDates, miniCardOverrides>>
    /\ UNCHANGED <<pc, clock, adapterVars, homeVars, categoryVars, textVars,
                   selectedPreset, presetRangeDates, activeCardIndex>>
    /\ PanelEffects(FALSE)

handleMarkerFullScreenToggle ==
    /\ pc = "ready"
    /\ MarkerCardShown
    /\ markerFullScreen' = ~markerFullScreen
    /\ clickedMarker' = <<>>
    /\ clickedDate' = <<>>
    /\ UNCHANGED <<selectedVenue, mapClickCount, mode, markerVenueId,
                   listFullScreenVenueId, isDismissed, prevSelectedVenueIdRef,
                   expandedCardOverride, expandedLocalDates, miniCardOverrides>>
    /\ UNCHANGED <<pc, clock, adapterVars, homeVars, categoryVars, textVars,
                   selectedPreset, presetRangeDates, activeCardIndex>>
    /\ PanelEffects(FALSE)

\* A card of the carousel is opened: its override, if it has one, is
\* carried into the expanded card, then handleListFullScreenToggle
handleListFullScreenToggle(venueId) ==
    /\ pc = "ready"
    /\ CarouselShown
    /\ HasCardOf(displayCards, venueId)
    /\ IF MapHas(miniCardOverrides, venueId)
       THEN /\ expandedCardOverride' = <<MapGet(miniCardOverrides, venueId).card>>
            /\ expandedLocalDates' = MapGet(miniCardOverrides, venueId).dates
       ELSE UNCHANGED <<expandedCardOverride, expandedLocalDates>>
    /\ listFullScreenVenueId' = venueId
    /\ clickedMarker' = <<>>
    /\ clickedDate' = <<>>
    /\ UNCHANGED <<selectedVenue, mapClickCount, mode, markerVenueId,
                   markerFullScreen, isDismissed, prevSelectedVenueIdRef,
                   miniCardOverrides>>
    /\ UNCHANGED <<pc, clock, adapterVars, homeVars, categoryVars, textVars,
                   selectedPreset, presetRangeDates, activeCardIndex>>
    /\ PanelEffects(FALSE)

\* The expanded card of the list is closed
CloseListFullScreen ==
    /\ pc = "ready"
    /\ ListFullScreenShown
    /\ listFullScreenVenueId' = <<>>
    /\ expandedCardOverride' = <<>>
    /\ expandedLocalDates' = <<>>
    /\ clickedMarker' = <<>>
    /\ clickedDate' = <<>>
    /\ UNCHANGED <<selectedVenue, mapClickCount, mode, markerVenueId,
                   markerFullScreen, isDismissed, prevSelectedVenueIdRef,
                   miniCardOverrides>>
    /\ UNCHANGED <<pc, clock, adapterVars, homeVars, categoryVars, textVars,
                   selectedPreset, presetRangeDates, activeCardIndex>>
    /\ PanelEffects(FALSE)

handleListDismiss ==
    /\ pc = "ready"
    /\ CarouselShown
    /\ isDismissed' = TRUE
    /\ listFullScreenVenueId' = <<>>
    /\ clickedMarker' = <<>>
    /\ clickedDate' = <<>>
    /\ UNCHANGED <<selectedVenue, mapClickCount, mode, markerVenueId,
                   markerFullScreen, prevSelectedVenueIdRef,
                   expandedCardOverride, expandedLocalDates, miniCardOverrides>>
    /\ UNCHANGED <<pc, clock, adapterVars, homeVars, categoryVars, textVars,
                   selectedPreset, presetRangeDates, activeCardIndex>>
    /\ PanelEffects(FALSE)

\* A date pill of a card of the carousel is clicked
handleMiniCardDateChange(venueId, dates) ==
    LET dateKey == dates[1]
        matchingCard == FindCardOn(AllCardsMemo(allVenues, cardsAt.now),
                                   venueId, dateKey, clock.tz)
    IN  /\ pc = "ready"
        /\ CarouselShown
        /\ HasCardOf(displayCards, venueId)
        /\ miniCardOverrides' =
              IF /\ ~(activeDates # <<>> /\ dateKey \notin Range(activeDates))
                 /\ matchingCard # <<>>
              THEN MapSet(miniCardOverrides, venueId,
                          [card |-> matchingCard[1], dates |-> dates])
              ELSE miniCardOverrides
        /\ clickedMarker' = <<>>
        /\ clickedDate' = dates
        /\ UNCHANGED <<selectedVenue, mapClickCount, mode, markerVenueId,
                       markerFullScreen, listFullScreenVenueId, isDismissed,
                       prevSelectedVenueIdRef, expandedCardOverride,
                       expandedLocalDates>>
        /\ UNCHANGED <<pc, clock, adapterVars, homeVars, categoryVars, textVars,
                       selectedPreset, presetRangeDates, activeCardIndex>>
        /\ PanelEffects(FALSE)

\* A date pill of the expanded card of the list is clicked
handleExpandedDateChange(venueId, dates) ==
    LET dateKey == dates[1]
        matchingCard == FindCardOn(AllCardsMemo(allVenues, cardsAt.now),
                                   venueId, dateKey, clock.tz)
    IN  /\ pc = "ready"
        /\ ListFullScreenShown
        /\ venueId = listFullScreenVenueId
        /\ expandedLocalDates' = dates
        /\ expandedCardOverride' =
              IF matchingCard # <<>> THEN matchingCard ELSE expandedCardOverride
        /\ clickedMarker' = <<>>
        /\ clickedDate' = <<>>
        /\ UNCHANGED <<selectedVenue, mapClickCount, mode, markerVenueId,
                       markerFullScreen, listFullScreenVenueId, isDismissed,
                       prevSelectedVenueIdRef, miniCardOverrides>>
        /\ UNCHANGED <<pc, clock, adapterVars, homeVars, categoryVars, textVars,
                       selectedPreset, presetRangeDates, activeCardIndex>>
        /\ PanelEffects(FALSE)

\* The 50 ms timer of the effect on [hasContent, isDismissed] fires
ShowTimerFires ==
    /\ pc = "ready"
    /\ showTimer
    /\ isVisible' = TRUE
    /\ showTimer' = FALSE
    /\ clickedMarker' = <<>>
    /\ clickedDate' = <<>>
    /\ UNCHANGED <<selectedVenue, mapClickCount, mode, markerVenueId,
                   markerFullScreen, listFullScreenVenueId, isDismissed,
                   prevSelectedVenueIdRef, expandedCardOverride,
                   expandedLocalDates, miniCardOverrides, activeCardIndex,
                   highlightedVenueId>>
    /\ UNCHANGED <<pc, clock, adapterVars, homeVars, categoryVars, textVars,
                   selectedPreset, presetRangeDates>>

\* The carousel is scrolled to the card at `index`
handleCarouselScroll(index) ==
    /\ pc = "ready"
    /\ CarouselShown
    /\ activeCardIndex' =
          IF index <= Len(displayCards) - 1 THEN index
          ELSE Len(displayCards) - 1
    /\ clickedMarker' = <<>>
    /\ clickedDate' = <<>>
    /\ UNCHANGED <<selectedVenue, mapClickCount, mode, markerVenueId,
                   markerFullScreen, listFullScreenVenueId, isDismissed,
                   prevSelectedVenueIdRef, expandedCardOverride,
                   expandedLocalDates, miniCardOverrides>>
    /\ UNCHANGED <<pc, clock, adapterVars, homeVars, categoryVars, textVars,
                   selectedPreset, presetRangeDates>>
    /\ PanelEffects(FALSE)

\* The category selections the filter sheet hands to handleFiltersChange
CategorySelections == {<<>>, <<Nightlife>>}

\* Home's handleFiltersChange: setFilters(newFilters).  The hook returns
\* the records that match, the memos on them are computed again, and
\* MobileEventList runs its effects on displayCards and on
\* [selectedVenueId, displayCards]
handleFiltersChange(newFilters) ==
    /\ pc = "ready"
    /\ filters' = newFilters
    /\ filteredVenues' =
          SelectSeq(allVenues,
                    LAMBDA v : MatchesCategory(v, newFilters.eventCategories))
    /\ cards' = HomeCards(filteredVenues', activeDates, clock)
    /\ cardsAt' = clock
    /\ displayCards' = DisplayCards(cards', activeDates, venueDateMap)
    /\ eventCountsByDate' = EventCountsByDate(filteredVenues', clock)
    /\ LET selectedVenueId == SelectedVenueId(selectedVenue)
           switches == MarkerEffectSwitches(prevSelectedVenueIdRef,
                                            selectedVenueId, displayCards')
       IN  /\ mode' = IF switches THEN "marker" ELSE mode
           /\ markerVenueId' = IF switches THEN NumToString(selectedVenueId)
                                ELSE markerVenueId
           /\ isDismissed' = IF switches THEN FALSE ELSE isDismissed
           /\ prevSelectedVenueIdRef' = selectedVenueId
    /\ markerFullScreen' = FALSE
    /\ listFullScreenVenueId' = <<>>
    /\ expandedCardOverride' = <<>>
    /\ expandedLocalDates' = <<>>
    /\ miniCardOverrides' = <<>>
    /\ clickedMarker' = <<>>
    /\ clickedDate' = <<>>
    /\ UNCHANGED <<allVenues, activeDates, venueDateMap, indexAt, optionDates,
                   dateOptions, cardsAgain, againAt, clock, pc, adapterVars,
                   flatFilters, textVars, selectedPreset, presetRangeDates,
                   selectedVenue, mapClickCount>>
    /\ activeCardIndex' = StartIndex(displayCards', activeDates, clock)
    /\ PanelEffects(TRUE)

\* The dates a card of the carousel shows as selected: those of its
\* override when that is valid, else the dates selected
MiniCardDates(venueId) ==
    LET override == GetOrEmpty(miniCardOverrides, venueId)
    IN  IF /\ MapHas(miniCardOverrides, venueId)
           /\ \/ activeDates = <<>>
              \/ \E d \in Range(override.dates) : d \in Range(activeDates)
        THEN override.dates
        ELSE activeDates

\* The date pills of a venue's card: one date each
PillDates(venueId) ==
    {<<GetOrEmpty(venueDateMap, venueId)[k].dateKey>> :
        k \in 1..Len(GetOrEmpty(venueDateMap, venueId))}

NextPanel ==
    \/ \E venue \in Range(filteredVenues) : handleVenueSelect(venue)
    \/ onMapClick
    \/ handleMarkerClose
    \/ handleMarkerFullScreenToggle
    \/ \E k \in 1..Len(displayCards) :
          handleListFullScreenToggle(displayCards[k].venue.id)
    \/ CloseListFullScreen
    \/ handleListDismiss
    \/ \E k \in 1..Len(displayCards) :
          \E dates \in PillDates(displayCards[k].venue.id) :
              /\ dates[1] \notin Range(MiniCardDates(displayCards[k].venue.id))
              /\ handleMiniCardDateChange(displayCards[k].venue.id, dates)
    \/ \E dates \in PillDates(listFullScreenVenueId) :
          handleExpandedDateChange(listFullScreenVenueId, dates)
    \/ \E dates \in DateSelections : handleDateChange(dates)
    \/ ShowTimerFires
    \/ \E index \in 0..(Len(displayCards) - 1) : handleCarouselScroll(index)
    \/ \E selected \in CategorySelections :
          handleFiltersChange([filters EXCEPT
              !.eventCategories.selectedPrimaries = selected])

SpecPanel == InitPanel /\ [][NextPanel]_vars

---------------------------------------------------------------------------
(* Claims on the mobile panel *)

\* C19: whatever marker clicks, card closes, map clicks and date changes
\* came before, once the marker of a venue with a card in the list shown
\* is clicked the panel is in marker mode on that venue, not dismissed and
\* not full-screen.
C19_MarkerClickShowsCard ==
    (/\ clickedMarker # <<>>
     /\ clickedMarker[1].venue_id # 0
     /\ HasCardOf(displayCards, VenueIdString(clickedMarker[1])))
       => /\ mode = "marker"
          /\ markerVenueId = VenueIdString(clickedMarker[1])
          /\ ~isDismissed
          /\ ~markerFullScreen

\* C20: a step that changes activeDates leaves the panel in list mode, not
\* dismissed, with no marker venue, no full-screen card, no expanded-card
\* override and no mini-card override, whatever it was before.
C20_DateChangeResetsPanel ==
    [][activeDates' # activeDates =>
          /\ mode' = "list"
          /\ ~isDismissed'
          /\ markerVenueId' = <<>>
          /\ ~markerFullScreen'
          /\ listFullScreenVenueId' = <<>>
          /\ expandedCardOverride' = <<>>
          /\ miniCardOverrides' = <<>>]_vars

\* C20 witness: a marker was clicked and the map was clicked, and the
\* panel is back in list mode, in view, on a selection of dates under
\* which the venue of the marker has a card
C20_Witness ==
    /\ activeDates # <<>>
    /\ selectedVenue # <<>>
    /\ prevSelectedVenueIdRef # 0
    /\ HasCardOf(displayCards, NumToString(prevSelectedVenueIdRef))
    /\ mapClickCount > 0
    /\ clickedMarker = <<>>
    /\ mode = "list" /\ ~isDismissed /\ markerVenueId = <<>>
    /\ ~markerFullScreen /\ listFullScreenVenueId = <<>>
    /\ expandedCardOverride = <<>> /\ miniCardOverrides = <<>>

\* hasContent of MobileEventList
HasContent ==
    IF mode = "list" THEN displayCards # <<>> ELSE markerVenueId # <<>>

\* C21: the panel is in view, or has the timer pending that brings it into
\* view, only while it is not dismissed and has content for its mode:
\* cards in list mode, a marker venue in marker mode.
C21_VisibleOnlyWithContent ==
    (isVisible \/ showTimer) => (HasContent /\ ~isDismissed)

\* C21 witness: the map was clicked, and the panel is dismissed, out of
\* view and without a timer, over a list that has cards
C21_Witness ==
    /\ isDismissed /\ mapClickCount > 0
    /\ displayCards # <<>>
    /\ ~isVisible /\ ~showTimer

\* C22: while the panel is dismissed or has no cards to display, the last
\* value reported through onActiveCardChange is null.
C22_NoHighlightWithoutPanel ==
    (isDismissed \/ displayCards = <<>>) => highlightedVenueId = <<>>

\* The state the panel records; clickedMarker and clickedDate only
\* remember the last click
PanelState ==
    <<selectedVenue, mapClickCount, mode, markerVenueId, markerFullScreen,
      listFullScreenVenueId, isDismissed, prevSelectedVenueIdRef,
      expandedCardOverride, expandedLocalDates, miniCardOverrides,
      isVisible, showTimer, activeCardIndex, highlightedVenueId>>

\* C23: a step in which a date pill of a mini card is clicked leaves
\* activeDates as it was; it changes nothing when dates are selected and
\* the date of the pill is not among them; and after it the card of every
\* mini-card override is of the venue it is recorded for and falls on the
\* date that was requested for it.
C23_MiniCardDateChangeIsLocal ==
    [][clickedDate' # <<>> =>
          /\ activeDates' = activeDates
          /\ (activeDates # <<>> /\ clickedDate'[1] \notin Range(activeDates))
                => UNCHANGED <<homeVars, categoryVars, PanelState>>
          /\ \A e \in 1..Len(miniCardOverrides') :
                LET override == miniCardOverrides'[e]
                IN  /\ override.value.card.venue.id = override.key
                    /\ CardDateKey(override.value.card, clock.tz)
                          = override.value.dates[1]]_vars

\* C23 witness: a pill of a mini card was clicked, and an override of the
\* venue is recorded for the date of the pill
C23_Witness ==
    /\ clickedDate # <<>>
    /\ \E e \in 1..Len(miniCardOverrides) :
          miniCardOverrides[e].value.dates = clickedDate

---------------------------------------------------------------------------
(* Claims on the cards of a date selection *)

---------------------------------------------------------------------------
(* TopNav: the date range presets and the date pills *)

\* PRESET_LABELS: the presets of the dropdown, and those that are ranges
DateRangePresets == {"today", "all", "this-week", "next-week", "this-month",
                     "next-month"}
RangePresets == DateRangePresets \ {"all", "today"}

\* mutant: the days to the next Monday counted as if Sunday ended the week
\* one day later
DaysToNextMondayFromSundayStart(day) == 8 - day
\* today.getDate() + (7 - ((day + 6) % 7)): the days from a day of the
\* week `day` (0 = Sunday) to the Monday after it
DaysToNextMonday(day) == 7 - ((day + 6) % 7)

\* getDateRangeKeys, called at the clock c, for the months May to July 2025
getDateRangeKeys(preset, c) ==
    LET today == LocalDay(c.now, c.tz)
        KeyOf(d) == ToDateString(At(24 * d - c.tz), c.tz)
        day == (today + 6) % 7
        daysUntilSunday == IF day = 0 THEN 0 ELSE 7 - day
        nextMonday == today + DaysToNextMonday(day)
        DaysIn(month) == <<31, 28, 31, 30, 31, 30, 31, 31, 30, 31, 30, 31>>[month + 1]
        DayOf(month, i) == IF month = 4 THEN i - 31
                           ELSE IF month = 5 THEN i ELSE i + 30
        nextMonth == (GetMonth(today) + 1) % 12
    IN  CASE preset = "all" -> <<>>
          [] preset = "today" -> <<KeyOf(today)>>
          [] preset = "this-week" ->
                [i \in 1..(daysUntilSunday + 1) |-> KeyOf(today + (i - 1))]
          [] preset = "next-week" ->
                [i \in 1..7 |-> KeyOf(nextMonday + (i - 1))]
          [] preset = "this-month" ->
                [k \in 1..(DaysIn(GetMonth(today)) - GetDate(today) + 1) |->
                    KeyOf(DayOf(GetMonth(today), GetDate(today) + (k - 1)))]
          [] preset = "next-month" ->
                [i \in 1..DaysIn(nextMonth) |-> KeyOf(DayOf(nextMonth, i))]
          [] OTHER -> <<>>

\* mutant: a click on an unselected date adds it to the selection
ToggleDateAdding(selectedDates, dateKey) ==
    IF ArrayIncludes(selectedDates, dateKey)
    THEN Without(selectedDates, dateKey)
    ELSE selectedDates \o <<dateKey>>
\* The toggle of an individual date: the selection without the date if it
\* is selected, the date alone if it is not
ToggleDate(selectedDates, dateKey) ==
    IF ArrayIncludes(selectedDates, dateKey)
    THEN Without(selectedDates, dateKey)
    ELSE <<dateKey>>

\* mutant: the date is toggled whether or not a range preset is active
DatesOfClickIgnoringPreset(preset, selectedDates, dateKey) ==
    ToggleDate(selectedDates, dateKey)
\* handleDateClick of the TopNav with presets: what onDateChange is given
DatesOfClick(preset, selectedDates, dateKey) ==
    IF preset \notin {"all", "today"}
    THEN <<dateKey>>
    ELSE ToggleDate(selectedDates, dateKey)

\* The instants the date selector is used at: the morning (local time) of
\* each day of the week from Sun Jun 1 to Sat Jun 7
TopNavClocks == {[now |-> 24 * d + 6, tz |-> 4] : d \in 1..7}

\* The page with its data loaded and no date selected, under either TopNav
InitTopNav ==
    /\ pc = "ready"
    /\ clock \in TopNavClocks
    /\ allVenues = <<Glow, Gala, GlowJun3>>
    /\ filteredVenues = allVenues
    /\ activeDates = <<>>
    /\ optionDates = [i \in 1..Len(allVenues) |-> allVenues[i].event_date]
    /\ venueDateMap = VenueDateMap(allVenues, clock)
    /\ indexAt = clock
    /\ cards = HomeCards(filteredVenues, activeDates, clock)
    /\ cardsAt = clock
    /\ displayCards = DisplayCards(cards, activeDates, venueDateMap)
    /\ dateOptions = DateOptions(optionDates, clock)
    /\ eventCountsByDate = EventCountsByDate(filteredVenues, clock)
    /\ cardsAgain = <<>> /\ againAt = clock
    /\ AdapterIdle
    /\ CategoryIdle
    /\ TextIdle
    /\ PanelIdle
    /\ selectedPreset \in {"all", "none"}
    /\ presetRangeDates = <<>>
    /\ clickedDate = <<>>

\* A preset of the dropdown is chosen; presetRangeDates is computed again
\* in the render that follows
handlePresetSelect(preset) ==
    /\ selectedPreset # "none"
    /\ selectedPreset' = preset
    /\ presetRangeDates' = IF preset \in {"all", "today"} THEN <<>>
                           ELSE getDateRangeKeys(preset, clock)
    /\ clickedDate' = <<>>
    /\ onDateChange(getDateRangeKeys(preset, clock))

\* A date pill of the TopNav with presets is clicked
handleDateClick(dateKey) ==
    /\ selectedPreset # "none"
    /\ clickedDate' = <<dateKey>>
    /\ onDateChange(DatesOfClick(selectedPreset, activeDates, dateKey))
    /\ UNCHANGED <<selectedPreset, presetRangeDates>>

\* A pill of the TopNav without presets, or of the DatePillsRow, is
\* clicked: a date pill or the pill 'all'
handleDateClickOrAll(dateKey) ==
    /\ selectedPreset = "none"
    /\ clickedDate' = <<dateKey>>
    /\ onDateChange(IF dateKey = "all" THEN <<>>
                    ELSE ToggleDate(activeDates, dateKey))
    /\ UNCHANGED <<selectedPreset, presetRangeDates>>

NextTopNav ==
    \/ \E preset \in DateRangePresets : handlePresetSelect(preset)
    \/ \E k \in 1..Len(dateOptions) : handleDateClick(dateOptions[k].dateKey)
    \/ \E k \in 1..Len(dateOptions) :
          handleDateClickOrAll(dateOptions[k].dateKey)
    \/ handleDateClickOrAll("all")

SpecTopNav == InitTopNav /\ [][NextTopNav]_vars

---------------------------------------------------------------------------
(* Claims on the date selector *)

\* C25: while a range preset is active, a step that clicks a date pill
\* leaves exactly that date selected and changes neither the preset nor the
\* range of the preset.
C25_PillClickKeepsPreset ==
    [][(selectedPreset \in RangePresets /\ clickedDate' # <<>>) =>
          /\ activeDates' = clickedDate'
          /\ selectedPreset' = selectedPreset
          /\ presetRangeDates' = presetRangeDates]_vars

\* C25 witness: under a range preset of several days a pill of a day of
\* the range was clicked, and that day alone is selected
C25_Witness ==
    /\ selectedPreset \in RangePresets
    /\ Len(presetRangeDates) > 1
    /\ clickedDate # <<>>
    /\ clickedDate[1] \in Range(presetRangeDates)
    /\ activeDates = clickedDate

\* C26: before and after every step, as long as no range preset is active
\* at most one date is selected, and a step that clicks a pill leaves the
\* selection empty if the pill is 'all' or the date selected, and holding
\* that date alone otherwise.
C26_AtMostOneDate ==
    [][/\ selectedPreset \notin RangePresets => Len(activeDates) <= 1
       /\ selectedPreset' \notin RangePresets => Len(activeDates') <= 1
       /\ (selectedPreset \notin RangePresets /\ clickedDate' # <<>>) =>
             activeDates' =
                IF \/ clickedDate'[1] = "all"
                   \/ clickedDate'[1] \in Range(activeDates)
                THEN <<>> ELSE clickedDate']_vars

\* C26 witness: with no range preset, the pill of the one date selected was
\* clicked and the selection is empty again
C26_Witness ==
    /\ selectedPreset \notin RangePresets
    /\ clickedDate # <<>>
    /\ clickedDate[1] # "all"
    /\ activeDates = <<>>

\* C27: whatever the current day, the range of 'this-week' is the days from
\* today to the first Sunday not before today, in order, the range of
\* 'next-week' is the seven days that follow that Sunday, in order, and the
\* two ranges share no date and leave no day between them.
C27_WeekPresetsAdjoin ==
    LET today == LocalDay(clock.now, clock.tz)
        \* day 1, Jun 1 2025, is a Sunday
        sunday == CHOOSE d \in today..(today + 6) : d % 7 = 1
        DayOfKey(k) == LocalDay(ParseDateKey(k, clock.tz).t, clock.tz)
        thisWeek == getDateRangeKeys("this-week", clock)
        nextWeek == getDateRangeKeys("next-week", clock)
    IN  /\ selectedPreset = "this-week" =>
              /\ presetRangeDates =
                    [i \in 1..(sunday - today + 1) |-> DayNames[today + i + 1]]
              /\ Range(presetRangeDates) \cap Range(nextWeek) = {}
              /\ DayOfKey(nextWeek[1])
                    = DayOfKey(presetRangeDates[Len(presetRangeDates)]) + 1
        /\ selectedPreset = "next-week" =>
              /\ presetRangeDates = [i \in 1..7 |-> DayNames[sunday + i + 2]]
              /\ Range(presetRangeDates) \cap Range(thisWeek) = {}
              /\ DayOfKey(presetRangeDates[1])
                    = DayOfKey(thisWeek[Len(thisWeek)]) + 1

\* C27 witness: 'this-week' was chosen on a Sunday and its range is that
\* day alone
C27_Witness ==
    /\ selectedPreset = "this-week"
    /\ LocalDay(clock.now, clock.tz) % 7 = 1
    /\ Len(presetRangeDates) = 1

====
